---- MODULE Spec2Model ----
(***************************************************************************)
(* Little-star-backend: the JSON-file collections (users, routines, marks, *)
(* attendance, documents, policies), the request handlers that load,       *)
(* change and save them, and the tokens the handlers are called with.      *)
(*                                                                         *)
(* A request is a process.  Every `await fs.*` of a handler is one atomic  *)
(* step (fs.access, the lazy fs.writeFile of [], fs.readFile and the final *)
(* fs.writeFile); the synchronous code between two awaits belongs to the   *)
(* step that follows the first of them.  Requests interleave at the steps. *)
(* fs.writeFile is taken as atomic.  The timestamps (updatedAt,            *)
(* uploadDate) influence no control flow and are left out of the records.  *)
(* The clock counts whole seconds, as the iat and exp claims of a token do.*)
(***************************************************************************)
EXTENDS Integers, Sequences, FiniteSets, TLC

\* Requests started in one behaviour where one request runs at a time.
MaxReqs == 4
\* Requests started in one behaviour where requests overlap.
ConcReqs == 3
\* Requests that may be in flight together in a concurrent specification.
MaxConc == 2
\* Requests started where every marks value is tried.
GradeReqs == 1
\* Requests started where the Admin creates and deletes routines until two
\* records have one identifier, and then updates or deletes one of them.
DeleteReqs == 5
\* Seconds the clock may show before it is first advanced past them.
EarlySeconds == 1

VARIABLES
  scen,     \* the scenario: how many requests may overlap, the inputs drawn
  fs,       \* the data directory: file name -> [exists, data]
  req,      \* request slot -> the request in flight there (or idle)
  started,  \* number of requests started so far
  last,     \* the most recent response, with the request it answers
  log,      \* the successful mutating requests and signins, in order of response
  now       \* the clock, in seconds

vars == <<scen, fs, req, started, last, log, now>>

Slots == 1..MaxConc
\* The JSON files of the data directory, and the uploads directory (its
\* data are the names of the files multer has stored there).
Files == {"users", "routines", "marks", "attendance", "documents", "policies",
          "uploads"}

-----------------------------------------------------------------------------
(* JavaScript values *)

\* parseInt of a text without a leading digit; NaN is unequal to itself.
NaN == -1
\* JSON.stringify writes NaN as null.
Null == -2
\* A missing field of an object.
Undefined == "undefined"

Digits == {"0", "1", "2", "3", "4", "5", "6", "7", "8", "9"}
DigitVal(c) ==
  CASE c = "0" -> 0 [] c = "1" -> 1 [] c = "2" -> 2 [] c = "3" -> 3
    [] c = "4" -> 4 [] c = "5" -> 5 [] c = "6" -> 6 [] c = "7" -> 7
    [] c = "8" -> 8 [] c = "9" -> 9
DigitChar(n) ==
  CASE n = 0 -> "0" [] n = 1 -> "1" [] n = 2 -> "2" [] n = 3 -> "3"
    [] n = 4 -> "4" [] n = 5 -> "5" [] n = 6 -> "6" [] n = 7 -> "7"
    [] n = 8 -> "8" [] n = 9 -> "9"

\* A JSON number n, and a string given as its sequence of characters.
Num(n) == [t |-> "number", n |-> n, s |-> <<>>]
Str(s) == [t |-> "string", n |-> 0, s |-> s]
Bool(b) == [t |-> "boolean", n |-> IF b THEN 1 ELSE 0, s |-> <<>>]
\* a field the request body does not have
Missing == [t |-> "undefined", n |-> 0, s |-> <<>>]

RECURSIVE ParseDigits(_, _)
ParseDigits(s, acc) ==
  IF s = <<>> \/ Head(s) \notin Digits THEN acc
  ELSE ParseDigits(Tail(s), acc * 10 + DigitVal(Head(s)))

\* parseInt(v): the number itself, or the leading decimal digits of a string.
ParseInt(v) ==
  IF v.t = "number" THEN v.n
  ELSE IF v.s = <<>> \/ Head(v.s) \notin Digits THEN NaN
  ELSE ParseDigits(v.s, 0)

\* !v is false
Truthy(v) ==
  CASE v.t = "number" -> v.n # 0 /\ v.n # NaN
    [] v.t = "string" -> v.s # <<>>
    [] v.t = "boolean" -> v.n = 1
    [] OTHER -> FALSE

\* a === b on numbers (null is stored as Null and equals no number)
StrictEq(a, b) == a # NaN /\ b # NaN /\ a = b

\* array.findIndex / array.find: the first of the indices whose element
\* satisfies the predicate, 0 when there is none
FindIndex(matching) ==
  IF matching = {} THEN 0
  ELSE CHOOSE i \in matching : \A j \in matching : i <= j

\* array.splice(i, 1)
Splice(arr, i) == SubSeq(arr, 1, i - 1) \o SubSeq(arr, i + 1, Len(arr))

\* String.prototype.toLowerCase on a string given as its characters
UpperCase == <<"A", "B", "C", "D", "E", "F", "G", "H", "I", "J", "K", "L", "M",
               "N", "O", "P", "Q", "R", "S", "T", "U", "V", "W", "X", "Y", "Z">>
LowerCase == <<"a", "b", "c", "d", "e", "f", "g", "h", "i", "j", "k", "l", "m",
               "n", "o", "p", "q", "r", "s", "t", "u", "v", "w", "x", "y", "z">>
LowerChar(c) ==
  IF \E i \in 1..Len(UpperCase) : UpperCase[i] = c
  THEN LowerCase[CHOOSE i \in 1..Len(UpperCase) : UpperCase[i] = c]
  ELSE c
toLowerCase(s) == [i \in 1..Len(s) |-> LowerChar(s[i])]

\* JSON.parse(JSON.stringify(x)) of a number field
JsonNumber(n) == IF n = NaN THEN Null ELSE n

\* path.extname of a file name given as its characters: from the last dot
\* to the end; empty when there is no dot or the name only starts with one.
LastDot(name) ==
  IF \E i \in 1..Len(name) : name[i] = "."
  THEN CHOOSE i \in 1..Len(name) :
         name[i] = "." /\ \A j \in (i + 1)..Len(name) : name[j] # "."
  ELSE 0
ExtName(name) ==
  IF LastDot(name) <= 1 \/ name = <<".", ".">> THEN <<>>
  ELSE SubSeq(name, LastDot(name), Len(name))

-----------------------------------------------------------------------------
(* Responses *)

NoBody == [none |-> TRUE]
Res(status, message, body) == [status |-> status, message |-> message, body |-> body]
IdleReq == [pc |-> "idle"]
NoLast == [route |-> "none"]

InFlight == Cardinality({s \in Slots : req[s].pc # "idle"})

-----------------------------------------------------------------------------
(* The accounts the other collections' requests are made with: the users   *)
(* file after three signups (an Admin, a Teacher, a Student of section A). *)

\* bcrypt.hash(password, 10) and bcrypt.compare(password, hash)
Hash(password) == [bcrypt |-> password]
Compare(password, hash) == hash = Hash(password)

\* A stored user; the accounts the other routers are tried with all signed
\* up with the password "pw".
User(id, email, userType, section) ==
  [id |-> id, email |-> email, password |-> Hash("pw"), userType |-> userType,
   section |-> section]

\* An email is the sequence of its characters.
SeedUsers ==
  << User(1, <<"a", "@", "x">>, "Admin", Undefined),
     User(2, <<"t", "@", "x">>, "Teacher", Undefined),
     User(3, <<"s", "@", "x">>, "Student", "A") >>

\* The claims of a token, as jwt.verify decodes them.
TokenPayload(id, email, userType, section) ==
  [id |-> id, email |-> email, userType |-> userType, section |-> section]

\* expiresIn: '1h', in seconds
ExpiresIn == 3600

\* process.env.JWT_SECRET, the key the tokens are signed and verified with
JWT_SECRET == "JWT_SECRET"

\* jwt.sign(payload, secret, { expiresIn: '1h' }) at time t: the payload
\* with the time of issue and the time of expiry, signed with the secret.
Sign(payload, t) ==
  [id |-> payload.id, email |-> payload.email, userType |-> payload.userType,
   section |-> payload.section, iat |-> t, exp |-> t + ExpiresIn,
   key |-> JWT_SECRET]

\* A bearer string that is no JWT: nothing can be decoded from it and it
\* carries no signature.
Malformed ==
  [id |-> 0, email |-> <<>>, userType |-> "", section |-> Undefined,
   iat |-> 0, exp |-> 0, key |-> ""]

\* The token with the same claims, signed with another key.
Forged(token) == [token EXCEPT !.key = "another secret"]

\* jwt.verify(token, secret) returns the claims when the string is a JWT,
\* its signature was made with the secret, and it has not expired; it
\* throws otherwise.
verify(token) ==
  /\ token # Malformed
  /\ token.key = JWT_SECRET
  /\ now < token.exp

\* The token signup mints for user u, when u signs up at time 0.
Token(u) == Sign(TokenPayload(u.id, u.email, u.userType, u.section), 0)
NoToken == TokenPayload(0, <<>>, "", Undefined)
NoUser == User(0, <<>>, "", Undefined)

\* users.find(u => u.id === id)
FindUser(users, id) ==
  LET i == FindIndex({k \in 1..Len(users) : StrictEq(users[k].id, id)})
  IN IF i = 0 THEN NoUser ELSE users[i]

\* The shared middleware: the token is verified, then the user is loaded.
authenticate(token, users) ==
  IF token = NoToken THEN [ok |-> FALSE, res |-> Res(401, "No token provided", NoBody)]
  ELSE IF ~verify(token) THEN [ok |-> FALSE, res |-> Res(401, "Invalid token", NoBody)]
  ELSE LET user == FindUser(users, token.id)
       IN IF user = NoUser
          THEN [ok |-> FALSE, res |-> Res(401, "Invalid token", NoBody)]
          ELSE [ok |-> TRUE, user |-> user]

\* (mutant) the identifier is the length before the push
NextIdFromZero(arr) == Len(arr)

\* The identifier a create assigns: array.length + 1
NextId(arr) == Len(arr) + 1

-----------------------------------------------------------------------------
(* Accounts *)

VALID_USER_TYPES == {"Admin", "Teacher", "Student"}

SignupBody(email, password, userType, section) ==
  [email |-> email, password |-> password, userType |-> userType, section |-> section]

\* a section that is missing, null or empty
NoSection(section) == section \in {Undefined, ""}

\* router.post('/signup'): the checks before readUsers
SignupChecks(body) ==
  IF body.email = <<>> \/ body.password = "" \/ body.userType = ""
  THEN [ok |-> FALSE,
        res |-> Res(400, "Email, password, and userType are required", NoBody)]
  ELSE IF body.userType = "Student" /\ NoSection(body.section)
  THEN [ok |-> FALSE, res |-> Res(400, "Section is required for Students", NoBody)]
  ELSE IF body.userType \notin VALID_USER_TYPES
  THEN [ok |-> FALSE,
        res |-> Res(400, "Invalid userType. Must be Admin, Teacher, or Student", NoBody)]
  ELSE [ok |-> TRUE]

\* (mutant) the emails compared as they were typed
SameEmailExact(a, b) == a = b

\* user.email.toLowerCase() === email.toLowerCase()
SameEmail(a, b) == toLowerCase(a) = toLowerCase(b)

\* (mutant) the new user is put in front of the others
SignupUnshift(r, users) ==
  LET b == r.body
      section == IF b.userType = "Student" THEN b.section ELSE Undefined
      newUser == [User(NextId(users), b.email, b.userType, section)
                    EXCEPT !.password = Hash(b.password)]
  IN IF \E i \in 1..Len(users) : SameEmail(users[i].email, b.email)
     THEN [write |-> FALSE, arr |-> users, res |-> Res(400, "User already exists", NoBody)]
     ELSE [write |-> TRUE, arr |-> <<newUser>> \o users,
           res |-> Res(201, "", TokenPayload(newUser.id, b.email, b.userType, section))]

\* (mutant) the submitted section is stored whatever the userType
SignupAnySection(r, users) ==
  LET b == r.body
      newUser == [User(NextId(users), b.email, b.userType, b.section)
                    EXCEPT !.password = Hash(b.password)]
  IN IF \E i \in 1..Len(users) : SameEmail(users[i].email, b.email)
     THEN [write |-> FALSE, arr |-> users, res |-> Res(400, "User already exists", NoBody)]
     ELSE [write |-> TRUE, arr |-> Append(users, newUser),
           res |-> Res(201, "", TokenPayload(newUser.id, b.email, b.userType, b.section))]

\* router.post('/signup'): what follows readUsers
Signup(r, users) ==
  LET b == r.body
      section == IF b.userType = "Student" THEN b.section ELSE Undefined
      newUser == [User(NextId(users), b.email, b.userType, section)
                    EXCEPT !.password = Hash(b.password)]
  IN IF \E i \in 1..Len(users) : SameEmail(users[i].email, b.email)
     THEN [write |-> FALSE, arr |-> users, res |-> Res(400, "User already exists", NoBody)]
     ELSE [write |-> TRUE, arr |-> Append(users, newUser),
           res |-> Res(201, "", TokenPayload(newUser.id, b.email, b.userType, section))]

SigninBody(email, password) == [email |-> email, password |-> password]

\* router.post('/signin'): the check before readUsers
SigninChecks(body) ==
  IF body.email = <<>> \/ body.password = ""
  THEN [ok |-> FALSE, res |-> Res(400, "Email and password are required", NoBody)]
  ELSE [ok |-> TRUE]

\* router.post('/signin'): what follows readUsers.  The token carries no
\* section.
Signin(r, users) ==
  LET i == FindIndex({k \in 1..Len(users) : SameEmail(users[k].email, r.body.email)})
  IN IF i = 0 \/ ~Compare(r.body.password, users[IF i = 0 THEN 1 ELSE i].password)
     THEN [write |-> FALSE, arr |-> users, res |-> Res(401, "Invalid credentials", NoBody)]
     ELSE [write |-> FALSE, arr |-> users,
           res |-> Res(200, "", Sign(TokenPayload(users[i].id, users[i].email,
                                                  users[i].userType, Undefined), now))]

-----------------------------------------------------------------------------
(* Routines *)

Routine(id, b) ==
  [id |-> id, section |-> b.section, day |-> b.day, time |-> b.time,
   subject |-> b.subject, teacherId |-> b.teacherId]

RoutineBody(section, teacherId) ==
  [section |-> section, day |-> "Monday", time |-> "09:00", subject |-> "Math",
   teacherId |-> teacherId]

\* (mutant) the role check turns away Students only
RoutineChecksNoStudents(verb, user, body, users) ==
  IF user.userType = "Student"
  THEN [ok |-> FALSE, res |-> Res(403, "Only Admins can " \o verb \o " routines", NoBody)]
  ELSE IF body.section = "" \/ body.day = "" \/ body.time = ""
          \/ body.subject = "" \/ body.teacherId = 0
  THEN [ok |-> FALSE, res |-> Res(400, "All fields are required", NoBody)]
  ELSE LET teacher == FindUser(users, body.teacherId)
       IN IF teacher = NoUser \/ teacher.userType # "Teacher"
          THEN [ok |-> FALSE, res |-> Res(400, "Invalid teacherId", NoBody)]
          ELSE [ok |-> TRUE]

\* POST and PUT: the role check, the required fields, the teacher lookup.
RoutineChecks(verb, user, body, users) ==
  IF user.userType # "Admin"
  THEN [ok |-> FALSE, res |-> Res(403, "Only Admins can " \o verb \o " routines", NoBody)]
  ELSE IF body.section = "" \/ body.day = "" \/ body.time = ""
          \/ body.subject = "" \/ body.teacherId = 0
  THEN [ok |-> FALSE, res |-> Res(400, "All fields are required", NoBody)]
  ELSE LET teacher == FindUser(users, body.teacherId)
       IN IF teacher = NoUser \/ teacher.userType # "Teacher"
          THEN [ok |-> FALSE, res |-> Res(400, "Invalid teacherId", NoBody)]
          ELSE [ok |-> TRUE]

RoutineDeleteChecks(user) ==
  IF user.userType # "Admin"
  THEN [ok |-> FALSE, res |-> Res(403, "Only Admins can delete routines", NoBody)]
  ELSE [ok |-> TRUE]


\* router.post('/'): what follows readRoutines
RoutinePost(r, routines) ==
  LET newRoutine == Routine(NextId(routines), r.body)
  IN [write |-> TRUE, arr |-> Append(routines, newRoutine),
      res |-> Res(201, "", newRoutine)]

\* routines.findIndex(r => r.id === parseInt(id))
RoutineIndex(routines, id) ==
  FindIndex({k \in 1..Len(routines) : StrictEq(routines[k].id, ParseInt(id))})

\* (mutant) the last record with the id is replaced: findLastIndex
RoutinePutLast(r, routines) ==
  LET matching == {k \in 1..Len(routines) :
                     StrictEq(routines[k].id, ParseInt(r.params))}
      index == IF matching = {} THEN 0
               ELSE CHOOSE i \in matching : \A j \in matching : i >= j
      new == Routine(ParseInt(r.params), r.body)
  IN IF index = 0
     THEN [write |-> FALSE, arr |-> routines, res |-> Res(404, "Routine not found", NoBody)]
     ELSE [write |-> TRUE, arr |-> [routines EXCEPT ![index] = new],
           res |-> Res(200, "", new)]

\* router.put('/:id'): what follows readRoutines
RoutinePut(r, routines) ==
  LET index == RoutineIndex(routines, r.params)
      new == Routine(ParseInt(r.params), r.body)
  IN IF index = 0
     THEN [write |-> FALSE, arr |-> routines, res |-> Res(404, "Routine not found", NoBody)]
     ELSE [write |-> TRUE, arr |-> [routines EXCEPT ![index] = new],
           res |-> Res(200, "", new)]

\* (mutant) every record with the id is removed
RoutineDeleteAll(r, routines) ==
  LET index == RoutineIndex(routines, r.params)
  IN IF index = 0
     THEN [write |-> FALSE, arr |-> routines, res |-> Res(404, "Routine not found", NoBody)]
     ELSE [write |-> TRUE,
           arr |-> SelectSeq(routines, LAMBDA x : ~StrictEq(x.id, ParseInt(r.params))),
           res |-> Res(200, "Routine deleted", NoBody)]

\* router.delete('/:id'): what follows readRoutines
RoutineDelete(r, routines) ==
  LET index == RoutineIndex(routines, r.params)
  IN IF index = 0
     THEN [write |-> FALSE, arr |-> routines, res |-> Res(404, "Routine not found", NoBody)]
     ELSE [write |-> TRUE, arr |-> Splice(routines, index),
           res |-> Res(200, "Routine deleted", NoBody)]

\* (mutant) the section filter keeps every routine
RoutinesOfAnySection(routines, section) == routines

\* routines.filter(r => r.section === req.user.section)
RoutinesOfSection(routines, section) ==
  SelectSeq(routines, LAMBDA x : x.section = section)

\* (mutant) the teacher filter keeps every routine
RoutinesOfAnyTeacher(routines, id) == routines

\* routines.filter(r => r.teacherId === req.user.id)
RoutinesOfTeacher(routines, id) ==
  SelectSeq(routines, LAMBDA x : StrictEq(x.teacherId, id))

\* A JSON array as a response body.
Rows(arr) == [rows |-> arr]

\* router.get('/'): what follows readRoutines
RoutineList(r, routines) ==
  CASE r.user.userType = "Admin" ->
         [write |-> FALSE, arr |-> routines, res |-> Res(200, "", Rows(routines))]
    [] r.user.userType = "Teacher" ->
         [write |-> FALSE, arr |-> routines,
          res |-> Res(200, "", Rows(RoutinesOfTeacher(routines, r.user.id)))]
    [] r.user.userType = "Student" ->
         IF NoSection(r.user.section)
         THEN [write |-> FALSE, arr |-> routines,
               res |-> Res(400, "Student section not found", NoBody)]
         ELSE [write |-> FALSE, arr |-> routines,
               res |-> Res(200, "", Rows(RoutinesOfSection(routines, r.user.section)))]
    [] OTHER ->
         [write |-> FALSE, arr |-> routines, res |-> Res(403, "Invalid user type", NoBody)]

-----------------------------------------------------------------------------
(* Documents *)

\* A multipart body: the attached file's original name (NoUpload when no
\* file is attached) and the description field.
NoUpload == <<>>
UploadBody(originalname, description) ==
  [originalname |-> originalname, description |-> description]

\* The name multer stores a document's file under: a fresh uuid (the
\* request's number stands for it) and the extension as it was given.
DocumentFileName(uuid, originalname) == [uuid |-> uuid, ext |-> ExtName(originalname)]

\* description || ''
OrEmpty(description) == IF description = Undefined THEN "" ELSE description

\* (mutant) Admins may upload as well
DocumentChecksStaff(user, file) ==
  IF user.userType \notin {"Teacher", "Admin"}
  THEN [ok |-> FALSE, res |-> Res(403, "Only Teachers can upload documents", NoBody)]
  ELSE IF file = NoUpload
  THEN [ok |-> FALSE, res |-> Res(400, "No file uploaded", NoBody)]
  ELSE [ok |-> TRUE]

\* documents router.post('/'): the checks before readDocuments
DocumentChecks(user, file) ==
  IF user.userType # "Teacher"
  THEN [ok |-> FALSE, res |-> Res(403, "Only Teachers can upload documents", NoBody)]
  ELSE IF file = NoUpload
  THEN [ok |-> FALSE, res |-> Res(400, "No file uploaded", NoBody)]
  ELSE [ok |-> TRUE]

\* documents router.post('/'): what follows readDocuments
DocumentPost(r, documents) ==
  LET newDocument == [id |-> NextId(documents), fileName |-> r.upload,
                      uploadedBy |-> r.user.id,
                      description |-> OrEmpty(r.body.description)]
  IN [write |-> TRUE, arr |-> Append(documents, newDocument),
      res |-> Res(201, "", newDocument)]

\* documents router.get('/'): what follows readDocuments
DocumentList(r, documents) ==
  [write |-> FALSE, arr |-> documents, res |-> Res(200, "", Rows(documents))]

\* documents.find(d => d.id === parseInt(id))
DocumentIndex(documents, id) ==
  FindIndex({k \in 1..Len(documents) : StrictEq(documents[k].id, ParseInt(id))})

\* documents router.get('/:id'): what follows readDocuments.  The file is
\* looked for in the uploads directory, which only grows; res.download
\* sends it (the body is the name of the file sent).
DocumentDownload(r, documents) ==
  LET i == DocumentIndex(documents, r.params)
  IN IF i = 0
     THEN [write |-> FALSE, arr |-> documents,
           res |-> Res(404, "Document not found", NoBody)]
     ELSE IF \A k \in 1..Len(fs["uploads"].data) :
               fs["uploads"].data[k] # documents[i].fileName
     THEN [write |-> FALSE, arr |-> documents,
           res |-> Res(404, "File not found", NoBody)]
     ELSE [write |-> FALSE, arr |-> documents,
           res |-> Res(200, "", documents[i].fileName)]

-----------------------------------------------------------------------------
(* Policies *)

\* The name multer stores a policy's file under: a fresh uuid and the
\* extension in lower case.
PolicyFileName(uuid, originalname) ==
  [uuid |-> uuid, ext |-> toLowerCase(ExtName(originalname))]

\* (mutant) the extension compared as it was given
fileFilterExact(originalname) ==
  LET ext == ExtName(originalname)
  IN ext = <<".", "p", "d", "f">> \/ ext = <<".", "d", "o", "c", "x">>

\* multer's fileFilter: cb(null, true) or cb(new Error(..), false)
fileFilter(originalname) ==
  LET ext == toLowerCase(ExtName(originalname))
  IN ext = <<".", "p", "d", "f">> \/ ext = <<".", "d", "o", "c", "x">>

\* policies router.post('/'): upload.single and handleMulterError, then the
\* handler's checks before readPolicies
PolicyChecks(user, originalname) ==
  IF originalname # NoUpload /\ ~fileFilter(originalname)
  THEN [ok |-> FALSE, res |-> Res(400, "Only PDF and DOCX files are allowed", NoBody)]
  ELSE IF user.userType # "Admin"
  THEN [ok |-> FALSE, res |-> Res(403, "Only Admins can upload policies", NoBody)]
  ELSE IF originalname = NoUpload
  THEN [ok |-> FALSE, res |-> Res(400, "No file uploaded", NoBody)]
  ELSE [ok |-> TRUE]

\* policies router.post('/'): what follows readPolicies
PolicyPost(r, policies) ==
  LET newPolicy == [id |-> NextId(policies), fileName |-> r.upload,
                    uploadedBy |-> r.user.id,
                    description |-> OrEmpty(r.body.description)]
  IN [write |-> TRUE, arr |-> Append(policies, newPolicy),
      res |-> Res(201, "", newPolicy)]

\* policies router.get('/'): what follows readPolicies
PolicyList(r, policies) ==
  [write |-> FALSE, arr |-> policies, res |-> Res(200, "", Rows(policies))]

\* policies.find(p => p.id === parseInt(id))
PolicyIndex(policies, id) ==
  FindIndex({k \in 1..Len(policies) : StrictEq(policies[k].id, ParseInt(id))})

\* policies router.get('/:id'): what follows readPolicies
PolicyDownload(r, policies) ==
  LET i == PolicyIndex(policies, r.params)
  IN IF i = 0
     THEN [write |-> FALSE, arr |-> policies,
           res |-> Res(404, "Policy not found", NoBody)]
     ELSE IF \A k \in 1..Len(fs["uploads"].data) :
               fs["uploads"].data[k] # policies[i].fileName
     THEN [write |-> FALSE, arr |-> policies,
           res |-> Res(404, "File not found", NoBody)]
     ELSE [write |-> FALSE, arr |-> policies,
           res |-> Res(200, "", policies[i].fileName)]

-----------------------------------------------------------------------------
(* Marks *)

validSubjects == {"Math", "Science", "English"}

MarksBody(userId, subject, marks) ==
  [userId |-> userId, subject |-> subject, marks |-> marks]

\* (mutant) the first threshold exclusive
calculateGradeAbove90(marks) ==
  IF marks > 90 THEN "A"
  ELSE IF marks >= 80 THEN "B"
  ELSE IF marks >= 70 THEN "C"
  ELSE IF marks >= 60 THEN "D"
  ELSE "F"

calculateGrade(marks) ==
  IF marks >= 90 THEN "A"
  ELSE IF marks >= 80 THEN "B"
  ELSE IF marks >= 70 THEN "C"
  ELSE IF marks >= 60 THEN "D"
  ELSE "F"

\* (mutant) the range check has no upper limit
MarksChecksNoUpperLimit(user, body) ==
  IF user.userType # "Admin" /\ user.userType # "Teacher"
  THEN [ok |-> FALSE,
        res |-> Res(403, "Only Admins or Teachers can update marks", NoBody)]
  ELSE IF ~Truthy(body.userId) \/ body.subject = "" \/ body.marks.t = "undefined"
  THEN [ok |-> FALSE,
        res |-> Res(400, "userId, subject, and marks are required", NoBody)]
  ELSE IF body.marks.t # "number" \/ body.marks.n < 0
  THEN [ok |-> FALSE,
        res |-> Res(400, "Marks must be a number between 0 and 100", NoBody)]
  ELSE IF body.subject \notin validSubjects
  THEN [ok |-> FALSE,
        res |-> Res(400, "Subject must be one of: Math, Science, English", NoBody)]
  ELSE [ok |-> TRUE]

\* marks router.post('/'): the checks before readMarks
MarksChecks(user, body) ==
  IF user.userType # "Admin" /\ user.userType # "Teacher"
  THEN [ok |-> FALSE,
        res |-> Res(403, "Only Admins or Teachers can update marks", NoBody)]
  ELSE IF ~Truthy(body.userId) \/ body.subject = "" \/ body.marks.t = "undefined"
  THEN [ok |-> FALSE,
        res |-> Res(400, "userId, subject, and marks are required", NoBody)]
  ELSE IF body.marks.t # "number" \/ body.marks.n < 0 \/ body.marks.n > 100
  THEN [ok |-> FALSE,
        res |-> Res(400, "Marks must be a number between 0 and 100", NoBody)]
  ELSE IF body.subject \notin validSubjects
  THEN [ok |-> FALSE,
        res |-> Res(400, "Subject must be one of: Math, Science, English", NoBody)]
  ELSE [ok |-> TRUE]

\* allMarks.findIndex(m => m.userId === parseInt(userId) && m.subject === subject)
MarkIndex(allMarks, userId, subject) ==
  FindIndex({k \in 1..Len(allMarks) :
               /\ StrictEq(allMarks[k].userId, ParseInt(userId))
               /\ allMarks[k].subject = subject})

\* marks router.post('/'): what follows readMarks
MarksPost(r, allMarks) ==
  LET b == r.body
      existingMarkIndex == MarkIndex(allMarks, b.userId, b.subject)
      markEntry == [userId |-> ParseInt(b.userId), subject |-> b.subject,
                    marks |-> b.marks.n, grade |-> calculateGrade(b.marks.n),
                    updatedBy |-> r.token.id]
  IN [write |-> TRUE,
      arr |-> IF existingMarkIndex > 0
              THEN [allMarks EXCEPT ![existingMarkIndex] = markEntry]
              ELSE Append(allMarks, markEntry),
      res |-> Res(201, "", [markEntry EXCEPT !.userId = JsonNumber(@)])]

\* (mutant) the caller's id is not compared with the id asked for
MarksGetChecksAnyCaller(user, userId) == [ok |-> TRUE]

\* marks router.get('/:userId'): the check before readMarks
MarksGetChecks(user, userId) ==
  IF /\ user.userType # "Admin"
     /\ user.userType # "Teacher"
     /\ ~StrictEq(user.id, ParseInt(userId))
  THEN [ok |-> FALSE, res |-> Res(403, "Unauthorized to view these marks", NoBody)]
  ELSE [ok |-> TRUE]

\* allMarks.filter(m => m.userId === parseInt(userId))
MarksOfUser(allMarks, userId) ==
  SelectSeq(allMarks, LAMBDA m : StrictEq(m.userId, ParseInt(userId)))

\* marks router.get('/:userId'): what follows readMarks
MarksList(r, allMarks) ==
  [write |-> FALSE, arr |-> allMarks,
   res |-> Res(200, "", Rows(MarksOfUser(allMarks, r.params)))]

-----------------------------------------------------------------------------
(* Attendance *)

\* The attendance router's own authenticate: the token is verified and the
\* decoded claims are the caller.
decode(token) ==
  IF token = NoToken THEN [ok |-> FALSE, res |-> Res(401, "No token provided", NoBody)]
  ELSE IF ~verify(token) THEN [ok |-> FALSE, res |-> Res(401, "Invalid token", NoBody)]
  ELSE [ok |-> TRUE, user |-> token]

validDays == {"Monday", "Tuesday", "Wednesday", "Thursday", "Friday", "Saturday",
              "Sunday"}

\* The attendance field of a body: an object (day -> value) or something else.
Obj(o) == [t |-> "object", o |-> o]
NotObj(t) == [t |-> t, o |-> <<>>]

AttendanceBody(userId, attendance) == [userId |-> userId, attendance |-> attendance]

\* attendance router.post('/'): the checks before readAttendance.  The role
\* is the one in the token; the target is looked up in the users file.
AttendanceChecks(user, body, users) ==
  IF user.userType # "Admin" /\ user.userType # "Teacher"
  THEN [ok |-> FALSE,
        res |-> Res(403, "Only Admins or Teachers can modify attendance", NoBody)]
  ELSE IF ~Truthy(body.userId) \/ body.attendance.t # "object"
  THEN [ok |-> FALSE,
        res |-> Res(400, "userId and attendance object are required", NoBody)]
  ELSE IF \E day \in DOMAIN body.attendance.o :
            day \notin validDays \/ body.attendance.o[day].t # "boolean"
  THEN [ok |-> FALSE,
        res |-> Res(400, "Attendance must contain valid days with boolean values",
                    NoBody)]
  ELSE LET user2 == IF body.userId.t = "number"
                    THEN FindUser(users, body.userId.n) ELSE NoUser
       IN IF user2 = NoUser \/ (user2.userType # "Teacher" /\ user2.userType # "Student")
          THEN [ok |-> FALSE,
                res |-> Res(400, "Invalid userId or user is not a Teacher/Student",
                            NoBody)]
          ELSE [ok |-> TRUE, target |-> user2]

\* (mutant) the submitted days merged into the recorded ones
MergeAttendance(old, new) ==
  [d \in DOMAIN old \cup DOMAIN new |-> IF d \in DOMAIN new THEN new[d] ELSE old[d]]

\* existingRecord.attendance = attendance
ReplaceAttendance(old, new) == new

\* (mutant) record.id === userId: the records have no id, nothing is found
AttendanceIndexById(records, userId) ==
  FindIndex({k \in 1..Len(records) :
               "id" \in DOMAIN records[k] /\ StrictEq(records[k].id, userId)})

\* attendanceRecords.find(record => record.userId === userId), 0 for none
AttendanceIndex(records, userId) ==
  FindIndex({k \in 1..Len(records) : StrictEq(records[k].userId, userId)})

\* attendance router.post('/'): what follows readAttendance
AttendancePost(r, records) ==
  LET userId == r.body.userId.n
      i == AttendanceIndex(records, userId)
      arr == IF i > 0
             THEN [records EXCEPT
                     ![i].attendance = ReplaceAttendance(@, r.body.attendance.o)]
             ELSE Append(records, [userId |-> userId, name |-> r.target.email,
                                   userType |-> r.target.userType,
                                   attendance |-> r.body.attendance.o])
  IN [write |-> TRUE, arr |-> arr, res |-> Res(201, "attendance.xlsx", [rows |-> arr])]

\* (mutant) the caller's id is not compared with the id asked for
AttendanceGetChecksAnyCaller(user, userId) == [ok |-> TRUE]

\* attendance router.get('/:userId'): the check before readAttendance
AttendanceGetChecks(user, userId) ==
  IF /\ user.userType # "Admin"
     /\ user.userType # "Teacher"
     /\ ~StrictEq(user.id, ParseInt(userId))
  THEN [ok |-> FALSE, res |-> Res(403, "Access denied", NoBody)]
  ELSE [ok |-> TRUE]

\* attendance router.get('/:userId'): what follows readAttendance
AttendanceOfUser(r, records) ==
  LET i == AttendanceIndex(records, ParseInt(r.params))
  IN IF i = 0
     THEN [write |-> FALSE, arr |-> records,
           res |-> Res(404, "Attendance not found", NoBody)]
     ELSE [write |-> FALSE, arr |-> records, res |-> Res(200, "", records[i])]

\* JSON.stringify of a collection: NaN becomes null
Stringify(file, arr) ==
  IF file = "marks"
  THEN [i \in 1..Len(arr) |-> [arr[i] EXCEPT !.userId = JsonNumber(@)]]
  ELSE arr

-----------------------------------------------------------------------------
(* The handlers' step after the collection is read *)

Apply(r, data) ==
  CASE r.route = "POST /auth/signup" -> Signup(r, data)
    [] r.route = "POST /auth/signin" -> Signin(r, data)
    [] r.route = "POST /marks" -> MarksPost(r, data)
    [] r.route = "POST /attendance" -> AttendancePost(r, data)
    [] r.route = "POST /routines" -> RoutinePost(r, data)
    [] r.route = "PUT /routines/:id" -> RoutinePut(r, data)
    [] r.route = "DELETE /routines/:id" -> RoutineDelete(r, data)
    [] r.route = "GET /routines" -> RoutineList(r, data)
    [] r.route = "GET /marks/:userId" -> MarksList(r, data)
    [] r.route = "GET /attendance/:userId" -> AttendanceOfUser(r, data)
    [] r.route = "POST /documents" -> DocumentPost(r, data)
    [] r.route = "GET /documents" -> DocumentList(r, data)
    [] r.route = "POST /policies" -> PolicyPost(r, data)
    [] r.route = "GET /documents/:id" -> DocumentDownload(r, data)
    [] r.route = "GET /policies" -> PolicyList(r, data)
    [] r.route = "GET /policies/:id" -> PolicyDownload(r, data)

FileOf(route) ==
  CASE route \in {"POST /routines", "PUT /routines/:id", "DELETE /routines/:id",
                  "GET /routines"}
         -> "routines"
    [] route \in {"POST /auth/signup", "POST /auth/signin"} -> "users"
    [] route \in {"POST /marks", "GET /marks/:userId"} -> "marks"
    [] route \in {"POST /attendance", "GET /attendance/:userId"} -> "attendance"
    [] route \in {"POST /documents", "GET /documents", "GET /documents/:id"}
         -> "documents"
    [] route \in {"POST /policies", "GET /policies", "GET /policies/:id"} -> "policies"

-----------------------------------------------------------------------------
(* Steps *)

\* A response with the request it answers; changed tells whether a step of
\* that request has altered the content of its file, fault whether one of
\* its reads or writes has failed.
Entry(r, res) ==
  [route |-> r.route, token |-> r.token, params |-> r.params, body |-> r.body,
   changed |-> r.changed, fault |-> r.fault, res |-> res]

\* The routes that change a collection.
Mutating(route) ==
  route \in {"POST /auth/signup", "POST /routines", "PUT /routines/:id",
             "DELETE /routines/:id", "POST /marks", "POST /attendance",
             "POST /documents", "POST /policies"}

\* res.status(..).json(..): the request ends.
Respond(s, r, res) ==
  /\ req' = [req EXCEPT ![s] = IdleReq]
  /\ last' = Entry(r, res)
  /\ log' = IF res.status \in {200, 201}
               /\ (Mutating(r.route) \/ r.route = "POST /auth/signin")
            THEN Append(log, Entry(r, res)) ELSE log

\* The request goes on to load its collection.
Load(s, r) ==
  /\ req' = [req EXCEPT ![s] = [r EXCEPT !.pc = "rAccess"]]
  /\ UNCHANGED <<last, log>>

NewReq(route, token, params, body) ==
  [pc |-> "start", route |-> route, token |-> token, params |-> params,
   body |-> body, file |-> FileOf(route), user |-> NoUser, target |-> NoUser,
   upload |-> NoUpload, arr |-> <<>>, res |-> Res(0, "", NoBody),
   changed |-> FALSE, fault |-> FALSE]

\* A new request may arrive: it takes the first free slot (which slot serves
\* a request makes no difference).
CanStart(s) ==
  /\ req[s].pc = "idle"
  /\ \A t \in Slots : t < s => req[t].pc # "idle"
  /\ started < scen.reqs
  /\ InFlight < scen.conc

\* The bodies the scenario submits to a route: one set for every route it
\* has, or a set for each route where several routers are served.
BodiesFor(route) ==
  IF "bodiesFor" \in DOMAIN scen THEN scen.bodiesFor[route] ELSE scen.bodies

\* A request on /routines arrives: authenticate, then the handler up to
\* readRoutines.  The users file is not written while routines are served.
RoutinesRequest(s) ==
  /\ CanStart(s)
  /\ \E route \in scen.routes, token \in scen.tokens :
       \E params \in (IF route = "POST /routines" THEN {Str(<<>>)} ELSE scen.ids),
          body \in (IF route = "DELETE /routines/:id" THEN {NoBody}
                    ELSE BodiesFor(route)) :
         LET r == NewReq(route, token, params, body)
             users == fs["users"].data
             auth == authenticate(token, users)
             chk == IF ~auth.ok THEN auth
                    ELSE CASE route = "POST /routines"
                                -> RoutineChecks("create", auth.user, body, users)
                           [] route = "PUT /routines/:id"
                                -> RoutineChecks("update", auth.user, body, users)
                           [] route = "DELETE /routines/:id"
                                -> RoutineDeleteChecks(auth.user)
         IN IF chk.ok THEN Load(s, r) ELSE Respond(s, r, chk.res)
  /\ started' = started + 1
  /\ UNCHANGED <<scen, fs, now>>

\* The tokens minted so far, by signup and by signin.
Minted ==
  {log[i].res.body : i \in {k \in 1..Len(log) :
                              log[k].route \in {"POST /auth/signup", "POST /auth/signin"}}}

\* A GET /routines arrives: authenticate, then readRoutines.  The caller
\* presents one of the scenario's tokens or a token minted before.
RoutinesGet(s) ==
  /\ CanStart(s)
  /\ \E token \in scen.viewers \cup Minted :
       LET r == NewReq("GET /routines", token, Str(<<>>), NoBody)
           auth == authenticate(token, fs["users"].data)
       IN IF auth.ok
          THEN Load(s, [r EXCEPT !.user = auth.user])
          ELSE Respond(s, r, auth.res)
  /\ started' = started + 1
  /\ UNCHANGED <<scen, fs, now>>

\* A POST /marks arrives: authenticate, then the handler up to readMarks.
MarksRequest(s) ==
  /\ CanStart(s)
  /\ \E token \in scen.tokens, body \in scen.bodies :
       LET r == NewReq("POST /marks", token, Str(<<>>), body)
           auth == authenticate(token, fs["users"].data)
           chk == IF ~auth.ok THEN auth ELSE MarksChecks(auth.user, body)
       IN IF chk.ok THEN Load(s, r) ELSE Respond(s, r, chk.res)
  /\ started' = started + 1
  /\ UNCHANGED <<scen, fs, now>>

\* A GET /marks/:userId arrives: authenticate, then the handler up to
\* readMarks.
MarksGet(s) ==
  /\ CanStart(s)
  /\ \E token \in scen.viewers, userId \in scen.ids :
       LET r == NewReq("GET /marks/:userId", token, userId, NoBody)
           auth == authenticate(token, fs["users"].data)
           chk == IF ~auth.ok THEN auth ELSE MarksGetChecks(auth.user, userId)
       IN IF chk.ok
          THEN Load(s, [r EXCEPT !.user = auth.user])
          ELSE Respond(s, r, chk.res)
  /\ started' = started + 1
  /\ UNCHANGED <<scen, fs, now>>

\* A POST /attendance arrives: the router's own authenticate (the decoded
\* token is the caller), then the handler up to readAttendance.
AttendanceRequest(s) ==
  /\ CanStart(s)
  /\ \E token \in scen.tokens, body \in BodiesFor("POST /attendance") :
       LET r == NewReq("POST /attendance", token, Str(<<>>), body)
           auth == decode(token)
           chk == IF ~auth.ok THEN auth
                  ELSE AttendanceChecks(auth.user, body, fs["users"].data)
       IN IF chk.ok
          THEN Load(s, [r EXCEPT !.target = chk.target])
          ELSE Respond(s, r, chk.res)
  /\ started' = started + 1
  /\ UNCHANGED <<scen, fs, now>>

\* A GET /attendance/:userId arrives: the router's own authenticate, then
\* the handler up to readAttendance.
AttendanceGet(s) ==
  /\ CanStart(s)
  /\ \E token \in scen.viewers, userId \in scen.ids :
       LET r == NewReq("GET /attendance/:userId", token, userId, NoBody)
           auth == decode(token)
           chk == IF ~auth.ok THEN auth ELSE AttendanceGetChecks(auth.user, userId)
       IN IF chk.ok
          THEN Load(s, [r EXCEPT !.user = token])
          ELSE Respond(s, r, chk.res)
  /\ started' = started + 1
  /\ UNCHANGED <<scen, fs, now>>

\* A POST /documents arrives: authenticate, then multer stores the attached
\* file in the uploads directory, then the handler up to readDocuments.
DocumentsPost(s) ==
  /\ CanStart(s)
  /\ \E token \in scen.tokens, body \in BodiesFor("POST /documents") :
       LET r == NewReq("POST /documents", token, Str(<<>>), body)
           auth == authenticate(token, fs["users"].data)
           fileName == IF body.originalname = NoUpload THEN NoUpload
                       ELSE DocumentFileName(started + 1, body.originalname)
           chk == IF ~auth.ok THEN auth ELSE DocumentChecks(auth.user, fileName)
       IN /\ fs' = IF auth.ok /\ fileName # NoUpload
                   THEN [fs EXCEPT !["uploads"].data = Append(@, fileName)]
                   ELSE fs
          /\ IF chk.ok
             THEN Load(s, [r EXCEPT !.user = auth.user, !.upload = fileName])
             ELSE Respond(s, r, chk.res)
  /\ started' = started + 1
  /\ UNCHANGED <<scen, now>>

\* A GET /documents arrives; the route has no middleware.
DocumentsGet(s) ==
  /\ CanStart(s)
  /\ \E token \in scen.viewers :
       Load(s, NewReq("GET /documents", token, Str(<<>>), NoBody))
  /\ started' = started + 1
  /\ UNCHANGED <<scen, fs, now>>

\* A GET /documents/:id arrives; the route has no middleware.
DocumentsGetOne(s) ==
  /\ CanStart(s)
  /\ \E token \in scen.viewers, id \in scen.ids :
       Load(s, NewReq("GET /documents/:id", token, id, NoBody))
  /\ started' = started + 1
  /\ UNCHANGED <<scen, fs, now>>

\* A GET /policies arrives; the route has no middleware.
PoliciesGet(s) ==
  /\ CanStart(s)
  /\ \E token \in scen.viewers :
       Load(s, NewReq("GET /policies", token, Str(<<>>), NoBody))
  /\ started' = started + 1
  /\ UNCHANGED <<scen, fs, now>>

\* A GET /policies/:id arrives; the route has no middleware.
PoliciesGetOne(s) ==
  /\ CanStart(s)
  /\ \E token \in scen.viewers, id \in scen.ids :
       Load(s, NewReq("GET /policies/:id", token, id, NoBody))
  /\ started' = started + 1
  /\ UNCHANGED <<scen, fs, now>>

\* A POST /policies arrives: authenticate, then multer (the file filter,
\* then the file stored in the uploads directory), handleMulterError, then
\* the handler up to readPolicies.
PoliciesPost(s) ==
  /\ CanStart(s)
  /\ \E token \in scen.tokens, body \in BodiesFor("POST /policies") :
       LET r == NewReq("POST /policies", token, Str(<<>>), body)
           auth == authenticate(token, fs["users"].data)
           stored == body.originalname # NoUpload /\ fileFilter(body.originalname)
           fileName == IF stored THEN PolicyFileName(started + 1, body.originalname)
                       ELSE NoUpload
           chk == IF ~auth.ok THEN auth ELSE PolicyChecks(auth.user, body.originalname)
       IN /\ fs' = IF auth.ok /\ stored
                   THEN [fs EXCEPT !["uploads"].data = Append(@, fileName)]
                   ELSE fs
          /\ IF chk.ok
             THEN Load(s, [r EXCEPT !.user = auth.user, !.upload = fileName])
             ELSE Respond(s, r, chk.res)
  /\ started' = started + 1
  /\ UNCHANGED <<scen, now>>

\* A signup arrives: the handler up to readUsers.
SignupRequest(s) ==
  /\ CanStart(s)
  /\ \E body \in BodiesFor("POST /auth/signup") :
       LET r == NewReq("POST /auth/signup", NoToken, Str(<<>>), body)
           chk == SignupChecks(body)
       IN IF chk.ok THEN Load(s, r) ELSE Respond(s, r, chk.res)
  /\ started' = started + 1
  /\ UNCHANGED <<scen, fs, now>>

\* A signin arrives: the handler up to readUsers.
SigninRequest(s) ==
  /\ CanStart(s)
  /\ \E body \in scen.signins :
       LET r == NewReq("POST /auth/signin", NoToken, Str(<<>>), body)
           chk == SigninChecks(body)
       IN IF chk.ok THEN Load(s, r) ELSE Respond(s, r, chk.res)
  /\ started' = started + 1
  /\ UNCHANGED <<scen, fs, now>>

\* The instants the clock is looked at: the first seconds, and for every
\* minted token the second before it expires, that of its expiry and the
\* one after.
Instants ==
  (1..scen.seconds)
    \cup {token.exp + d : token \in Minted, d \in {-1, 0, 1}}

\* Time passes, up to one of the instants.
Tick ==
  /\ \E t \in Instants : t > now /\ now' = t
  /\ UNCHANGED <<scen, fs, req, started, last, log>>

\* ensureRoutinesFile: await fs.access(FILE)
Access(s) ==
  /\ req[s].pc \in {"rAccess", "wAccess"}
  /\ LET r == req[s]
         nxt == IF fs[r.file].exists
                THEN (IF r.pc = "rAccess" THEN "read" ELSE "write")
                ELSE (IF r.pc = "rAccess" THEN "rInit" ELSE "wInit")
     IN req' = [req EXCEPT ![s].pc = nxt]
  /\ UNCHANGED <<scen, fs, started, last, log, now>>

\* ensureRoutinesFile, after access failed: await fs.writeFile(FILE, '[]')
InitFile(s) ==
  /\ req[s].pc \in {"rInit", "wInit"}
  /\ fs' = [fs EXCEPT ![req[s].file] = [exists |-> TRUE, data |-> <<>>]]
  /\ req' = [req EXCEPT ![s].pc = IF req[s].pc = "rInit" THEN "read" ELSE "write",
                         ![s].changed = @ \/ fs[req[s].file].data # <<>>]
  /\ UNCHANGED <<scen, started, last, log, now>>

\* await fs.readFile(FILE), JSON.parse, then the handler up to its write
ReadFile(s) ==
  /\ req[s].pc = "read"
  /\ LET r == req[s]
         a == Apply(r, fs[r.file].data)
     IN IF a.write
        THEN /\ req' = [req EXCEPT ![s] = [r EXCEPT !.pc = "wAccess", !.arr = a.arr,
                                                     !.res = a.res]]
             /\ UNCHANGED <<last, log>>
        ELSE Respond(s, r, a.res)
  /\ UNCHANGED <<scen, fs, started, now>>

\* The response that follows the write: signup signs its token then.
Sent(r) ==
  IF r.route = "POST /auth/signup" THEN [r.res EXCEPT !.body = Sign(@, now)] ELSE r.res

\* await fs.writeFile(FILE, JSON.stringify(array)), then the response
WriteFile(s) ==
  /\ req[s].pc = "write"
  /\ fs' = [fs EXCEPT ![req[s].file] =
                        [exists |-> TRUE, data |-> Stringify(req[s].file, req[s].arr)]]
  /\ Respond(s, [req[s] EXCEPT !.changed =
                          @ \/ fs'[req[s].file].data # fs[req[s].file].data],
             Sent(req[s]))
  /\ UNCHANGED <<scen, started, now>>

\* The routes whose handler awaits its reads and writes inside try/catch
\* (accounts, attendance, marks); the handlers of routines, documents and
\* policies await them unguarded.
Guarded(route) ==
  route \in {"POST /auth/signup", "POST /auth/signin", "POST /attendance",
             "GET /attendance/:userId", "POST /marks", "GET /marks/:userId"}

\* The body of the 500 a guarded handler answers from its catch: the marks
\* handlers send the message of the error readMarks or writeMarks threw.
CaughtMessage(r) ==
  IF r.route \in {"POST /marks", "GET /marks/:userId"}
  THEN (IF r.pc \in {"rInit", "read"} THEN "Failed to read marks"
        ELSE "Failed to write marks")
  ELSE "Server error"

\* The major versions of express an installation may run the routers on.
ExpressMajors == {4, 5}

\* fs.readFile or fs.writeFile rejects (permissions, disk, a corrupt file).
\* The read or write helper rethrows.  A guarded handler answers 500 from
\* its catch.  An unguarded handler's promise rejects: express 5 passes the
\* error to its default error handler, which answers 500; express 4 ignores
\* the promise, and the request is left without a response.
StorageFails(s) ==
  /\ req[s].pc \in {"rInit", "wInit", "read", "write"}
  /\ LET r == [req[s] EXCEPT !.fault = TRUE]
     IN IF Guarded(r.route)
        THEN Respond(s, r, Res(500, CaughtMessage(r), NoBody))
        ELSE IF scen.express = 5
        THEN Respond(s, r, Res(500, "Internal Server Error", NoBody))
        ELSE /\ req' = [req EXCEPT ![s] = [r EXCEPT !.pc = "rejected"]]
             /\ UNCHANGED <<last, log>>
  /\ UNCHANGED <<scen, fs, started, now>>

-----------------------------------------------------------------------------
(* Specifications *)

NoFile == [exists |-> FALSE, data |-> <<>>]
File(data) == [exists |-> TRUE, data |-> data]

\* The directories when the server has started: the given users file, no
\* other collection file yet, an empty uploads directory.
DataDir(users) ==
  [f \in Files |-> CASE f = "users" -> users
                     [] f = "uploads" -> File(<<>>)
                     [] OTHER -> NoFile]

\* Identifiers in a URL: the decimal text of 1..MaxReqs, and a text that is
\* no number.
IdParams == {Str(<<DigitChar(n)>>) : n \in 1..MaxReqs} \cup {Str(<<"x">>)}

InitCommon ==
  /\ req = [s \in Slots |-> IdleReq]
  /\ started = 0
  /\ last = NoLast
  /\ log = <<>>
  /\ now = 0

\* One request at a time on /routines.
InitRoutines ==
  /\ InitCommon
  /\ scen = [conc |-> 1, reqs |-> MaxReqs,
             routes |-> {"POST /routines", "PUT /routines/:id", "DELETE /routines/:id"},
             tokens |-> {Token(SeedUsers[1]), Token(SeedUsers[2]), Token(SeedUsers[3])},
             ids |-> IdParams,
             bodies |-> {RoutineBody("A", 2), RoutineBody("B", 2), RoutineBody("A", 3)}]
  /\ fs = DataDir(File(SeedUsers))

NextRoutines ==
  \E s \in Slots :
    \/ RoutinesRequest(s)
    \/ Access(s)
    \/ InitFile(s)
    \/ ReadFile(s)
    \/ WriteFile(s)

SpecRoutines == InitRoutines /\ [][NextRoutines]_vars

\* The Admin creates and deletes routines, one request at a time.
InitRoutinesDelete ==
  /\ InitCommon
  /\ scen = [conc |-> 1, reqs |-> DeleteReqs,
             routes |-> {"POST /routines", "DELETE /routines/:id"},
             tokens |-> {Token(SeedUsers[1])},
             ids |-> {Str(<<"1">>), Str(<<"2">>), Str(<<"3">>)},
             bodies |-> {RoutineBody("A", 2), RoutineBody("B", 2)}]
  /\ fs = DataDir(File(SeedUsers))

SpecRoutinesDelete == InitRoutinesDelete /\ [][NextRoutines]_vars

\* The Admin creates, updates and deletes routines, one request at a time.
InitRoutinesEdit ==
  /\ InitCommon
  /\ scen = [conc |-> 1, reqs |-> DeleteReqs,
             routes |-> {"POST /routines", "PUT /routines/:id", "DELETE /routines/:id"},
             tokens |-> {Token(SeedUsers[1])},
             ids |-> {Str(<<"1">>), Str(<<"2">>), Str(<<"3">>)},
             bodies |-> {RoutineBody("A", 2), RoutineBody("B", 2)}]
  /\ fs = DataDir(File(SeedUsers))

SpecRoutinesEdit == InitRoutinesEdit /\ [][NextRoutines]_vars

\* The accounts after two more signups: a second Teacher, a Student of
\* section B.
ViewUsers ==
  SeedUsers \o << User(4, <<"u", "@", "x">>, "Teacher", Undefined),
                  User(5, <<"r", "@", "x">>, "Student", "B") >>

\* The Admin creates, updates and deletes routines, one request at a time, and
\* everyone (a caller without a token too) lists them.
InitRoutinesView ==
  /\ InitCommon
  /\ scen = [conc |-> 1, reqs |-> MaxReqs,
             routes |-> {"POST /routines", "PUT /routines/:id", "DELETE /routines/:id"},
             tokens |-> {Token(ViewUsers[1])},
             viewers |-> {Token(ViewUsers[i]) : i \in 1..Len(ViewUsers)} \cup {NoToken},
             ids |-> {Str(<<"1">>), Str(<<"2">>)},
             bodies |-> {RoutineBody("A", 2), RoutineBody("B", 4), RoutineBody("B", 2)}]
  /\ fs = DataDir(File(ViewUsers))

NextRoutinesView ==
  \E s \in Slots :
    \/ RoutinesRequest(s)
    \/ RoutinesGet(s)
    \/ Access(s)
    \/ InitFile(s)
    \/ ReadFile(s)
    \/ WriteFile(s)

SpecRoutinesView == InitRoutinesView /\ [][NextRoutinesView]_vars

\* Signups, overlapping, on a fresh data directory.
InitAccounts ==
  /\ InitCommon
  /\ scen = [conc |-> MaxConc, reqs |-> ConcReqs,
             bodies |-> {SignupBody(<<"a">>, "pw", "Teacher", Undefined),
                         SignupBody(<<"A">>, "pw", "Student", "A"),
                         SignupBody(<<"A">>, "pw", "Admin", "B"),
                         SignupBody(<<"b">>, "pw", "Student", "B"),
                         SignupBody(<<"b">>, "pw", "Student", Undefined),
                         SignupBody(<<"b">>, "pw", "Student", ""),
                         SignupBody(<<"a">>, "", "Teacher", Undefined),
                         SignupBody(<<"B">>, "pw", "Parent", Undefined)}]
  /\ fs = DataDir(NoFile)

NextAccounts ==
  \E s \in Slots :
    \/ SignupRequest(s)
    \/ Access(s)
    \/ InitFile(s)
    \/ ReadFile(s)
    \/ WriteFile(s)

SpecAccounts == InitAccounts /\ [][NextAccounts]_vars

\* Signups and signins on a fresh data directory, overlapping, while time
\* passes; the minted tokens are presented to GET /routines.
InitTokens ==
  /\ InitCommon
  /\ scen = [conc |-> MaxConc, reqs |-> ConcReqs, seconds |-> EarlySeconds,
             bodies |-> {SignupBody(<<"a">>, "pw", "Admin", Undefined),
                         SignupBody(<<"b">>, "pw", "Student", "A")},
             signins |-> {SigninBody(<<"A">>, "pw"), SigninBody(<<"b">>, "no"),
                          SigninBody(<<"b">>, "")},
             viewers |-> {NoToken}]
  /\ fs = DataDir(NoFile)

NextTokens ==
  \/ \E s \in Slots :
       \/ SignupRequest(s)
       \/ SigninRequest(s)
       \/ RoutinesGet(s)
       \/ Access(s)
       \/ InitFile(s)
       \/ ReadFile(s)
       \/ WriteFile(s)
  \/ Tick

SpecTokens == InitTokens /\ [][NextTokens]_vars

\* POST /marks, one request at a time.
MarksBodies ==
  {MarksBody(Num(3), "Math", Num(50)),
   MarksBody(Str(<<"3">>), "Math", Num(95)),
   MarksBody(Num(3), "Science", Num(95)),
   MarksBody(Str(<<"x">>), "Math", Num(50)),
   MarksBody(Num(3), "Art", Num(50)),
   MarksBody(Num(3), "Math", Num(101)),
   MarksBody(Num(3), "Math", Num(-1)),
   MarksBody(Num(0), "Math", Num(50)),
   MarksBody(Num(3), "Math", Missing),
   MarksBody(Num(3), "Math", Str(<<"8", "5">>))}

InitMarksSeq ==
  /\ InitCommon
  /\ scen = [conc |-> 1, reqs |-> MaxReqs,
             tokens |-> {Token(SeedUsers[2]), Token(SeedUsers[3])},
             bodies |-> MarksBodies]
  /\ fs = DataDir(File(SeedUsers))

NextMarks ==
  \E s \in Slots :
    \/ MarksRequest(s)
    \/ Access(s)
    \/ InitFile(s)
    \/ ReadFile(s)
    \/ WriteFile(s)

SpecMarksSeq == InitMarksSeq /\ [][NextMarks]_vars

\* Marks are submitted for both Students and everyone asks for them, one
\* request at a time.
InitMarksView ==
  /\ InitCommon
  /\ scen = [conc |-> 1, reqs |-> MaxReqs,
             tokens |-> {Token(ViewUsers[2]), Token(ViewUsers[3])},
             viewers |-> {Token(ViewUsers[i]) : i \in 1..Len(ViewUsers)} \cup {NoToken},
             ids |-> {Str(<<"3">>), Str(<<"5">>), Str(<<"x">>)},
             bodies |-> {MarksBody(Num(3), "Math", Num(50)),
                         MarksBody(Num(5), "Math", Num(95)),
                         MarksBody(Str(<<"3">>), "Science", Num(95))}]
  /\ fs = DataDir(File(ViewUsers))

NextMarksView ==
  \E s \in Slots :
    \/ MarksRequest(s)
    \/ MarksGet(s)
    \/ Access(s)
    \/ InitFile(s)
    \/ ReadFile(s)
    \/ WriteFile(s)

SpecMarksView == InitMarksView /\ [][NextMarksView]_vars

\* POST /marks once or twice, with every marks value from -1 to 101.
InitGrade ==
  /\ InitCommon
  /\ scen = [conc |-> 1, reqs |-> GradeReqs,
             tokens |-> {Token(SeedUsers[1])},
             bodies |-> {MarksBody(Num(3), "Math", Num(m)) : m \in -1..101}]
  /\ fs = DataDir(File(SeedUsers))

SpecGrade == InitGrade /\ [][NextMarks]_vars

\* POST /attendance
Days(mon, tue) == [Monday |-> Bool(mon), Tuesday |-> Bool(tue)]
AttendanceBodies ==
  {AttendanceBody(Num(u), Obj(o)) :
     u \in {2, 3}, o \in {Days(TRUE, TRUE), [Monday |-> Bool(FALSE)]}}
  \cup {AttendanceBody(Num(1), Obj(Days(TRUE, TRUE))),
        AttendanceBody(Str(<<"3">>), Obj(Days(TRUE, TRUE))),
        AttendanceBody(Num(3), NotObj("string")),
        AttendanceBody(Num(3), Obj([Funday |-> Bool(TRUE)])),
        AttendanceBody(Num(3), Obj([Monday |-> Str(<<"y">>)]))}

InitAttendanceWith(conc, reqs) ==
  /\ InitCommon
  /\ scen = [conc |-> conc, reqs |-> reqs,
             tokens |-> {Token(SeedUsers[2]), Token(SeedUsers[3])},
             bodies |-> AttendanceBodies]
  /\ fs = DataDir(File(SeedUsers))

NextAttendance ==
  \E s \in Slots :
    \/ AttendanceRequest(s)
    \/ Access(s)
    \/ InitFile(s)
    \/ ReadFile(s)
    \/ WriteFile(s)

\* Attendance is recorded for Teacher 2 and Student 3 and everyone asks for
\* it, one request at a time.
InitAttendanceView ==
  /\ InitCommon
  /\ scen = [conc |-> 1, reqs |-> MaxReqs,
             tokens |-> {Token(ViewUsers[2]), Token(ViewUsers[3])},
             viewers |-> {Token(ViewUsers[i]) : i \in 1..Len(ViewUsers)} \cup {NoToken},
             ids |-> {Str(<<"2">>), Str(<<"3">>), Str(<<"5">>), Str(<<"x">>)},
             bodies |-> {AttendanceBody(Num(3), Obj(Days(TRUE, TRUE))),
                         AttendanceBody(Num(2), Obj([Monday |-> Bool(FALSE)])),
                         AttendanceBody(Num(3), Obj([Monday |-> Bool(FALSE)]))}]
  /\ fs = DataDir(File(ViewUsers))

NextAttendanceView ==
  \E s \in Slots :
    \/ AttendanceRequest(s)
    \/ AttendanceGet(s)
    \/ Access(s)
    \/ InitFile(s)
    \/ ReadFile(s)
    \/ WriteFile(s)

SpecAttendanceView == InitAttendanceView /\ [][NextAttendanceView]_vars

\* Everyone uploads documents, with a file or without, and everyone (a
\* caller without a token too) lists them, one request at a time.
InitDocuments ==
  /\ InitCommon
  /\ scen = [conc |-> 1, reqs |-> MaxReqs,
             tokens |-> {Token(SeedUsers[i]) : i \in 1..Len(SeedUsers)} \cup {NoToken},
             viewers |-> {NoToken, Token(SeedUsers[3])},
             bodies |-> {UploadBody(<<"n", ".", "p", "d", "f">>, "Test document"),
                         UploadBody(<<"n">>, Undefined),
                         UploadBody(NoUpload, "Test document")}]
  /\ fs = DataDir(File(SeedUsers))

NextDocuments ==
  \E s \in Slots :
    \/ DocumentsPost(s)
    \/ DocumentsGet(s)
    \/ Access(s)
    \/ InitFile(s)
    \/ ReadFile(s)
    \/ WriteFile(s)

SpecDocuments == InitDocuments /\ [][NextDocuments]_vars

\* Everyone uploads policies: files of the two allowed types in several
\* spellings, of another type, without an extension, and no file at all.
InitPolicies ==
  /\ InitCommon
  /\ scen = [conc |-> 1, reqs |-> MaxReqs,
             tokens |-> {Token(SeedUsers[i]) : i \in 1..Len(SeedUsers)} \cup {NoToken},
             bodies |-> {UploadBody(<<"n", ".", "p", "d", "f">>, "Test policy"),
                         UploadBody(<<"n", ".", "t", "x", "t", ".", "P", "d", "F">>,
                                    Undefined),
                         UploadBody(<<"n", ".", "D", "O", "C", "X">>, "Test policy"),
                         UploadBody(<<"n", ".", "p", "d", "f", ".", "t", "x", "t">>,
                                    "Test policy"),
                         UploadBody(<<"p", "d", "f">>, "Test policy"),
                         UploadBody(NoUpload, "Test policy")}]
  /\ fs = DataDir(File(SeedUsers))

NextPolicies ==
  \E s \in Slots :
    \/ PoliciesPost(s)
    \/ Access(s)
    \/ InitFile(s)
    \/ ReadFile(s)
    \/ WriteFile(s)

SpecPolicies == InitPolicies /\ [][NextPolicies]_vars

\* Two routines the Admin has created.
SeedRoutines == << Routine(1, RoutineBody("A", 2)), Routine(2, RoutineBody("B", 2)) >>

\* Signups, deletes of routines by the Admin, listings of routines and of
\* marks, one request at a time, where any read or write may fail.
InitFaults ==
  /\ InitCommon
  /\ \E express \in ExpressMajors :
       scen = [conc |-> 1, reqs |-> MaxReqs, express |-> express,
               routes |-> {"DELETE /routines/:id"},
               tokens |-> {Token(SeedUsers[1])},
               viewers |-> {Token(SeedUsers[2])},
               ids |-> {Str(<<"2">>)},
               bodies |-> {SignupBody(<<"b">>, "pw", "Teacher", Undefined)}]
  /\ fs = [DataDir(File(SeedUsers)) EXCEPT !["routines"] = File(SeedRoutines)]

NextFaults ==
  \E s \in Slots :
    \/ SignupRequest(s)
    \/ RoutinesRequest(s)
    \/ RoutinesGet(s)
    \/ MarksGet(s)
    \/ Access(s)
    \/ InitFile(s)
    \/ ReadFile(s)
    \/ WriteFile(s)
    \/ StorageFails(s)

SpecFaults == InitFaults /\ [][NextFaults]_vars

\* A mark and an attendance record the Teacher has entered for the Student.
SeedMarks ==
  << [userId |-> 3, subject |-> "Math", marks |-> 95, grade |-> calculateGrade(95),
      updatedBy |-> 2] >>
SeedAttendance ==
  << [userId |-> 3, name |-> SeedUsers[3].email, userType |-> "Student",
      attendance |-> Days(TRUE, TRUE)] >>

\* The Teacher uploads documents and the Admin policies while the seven
\* listings and downloads are asked for, overlapping.  Routines, marks and
\* attendance have been recorded before, or their files do not exist yet.
InitReads ==
  /\ InitCommon
  /\ scen = [conc |-> MaxConc, reqs |-> ConcReqs,
             tokens |-> {Token(SeedUsers[1]), Token(SeedUsers[2])},
             viewers |-> {Token(SeedUsers[2])},
             ids |-> {Str(<<"1">>), Str(<<"3">>)},
             bodies |-> {UploadBody(<<"n", ".", "p", "d", "f">>, "Test")}]
  /\ \E recorded \in BOOLEAN :
       fs = IF recorded
            THEN [DataDir(File(SeedUsers)) EXCEPT !["routines"] = File(SeedRoutines),
                                                  !["marks"] = File(SeedMarks),
                                                  !["attendance"] = File(SeedAttendance)]
            ELSE DataDir(File(SeedUsers))

NextReads ==
  \E s \in Slots :
    \/ DocumentsPost(s)
    \/ PoliciesPost(s)
    \/ RoutinesGet(s)
    \/ MarksGet(s)
    \/ AttendanceGet(s)
    \/ DocumentsGet(s)
    \/ DocumentsGetOne(s)
    \/ PoliciesGet(s)
    \/ PoliciesGetOne(s)
    \/ Access(s)
    \/ InitFile(s)
    \/ ReadFile(s)
    \/ WriteFile(s)

SpecReads == InitReads /\ [][NextReads]_vars

\* The Teacher and the Admin upload documents and policies, overlapping.
InitUploads ==
  /\ InitCommon
  /\ scen = [conc |-> MaxConc, reqs |-> ConcReqs,
             tokens |-> {Token(SeedUsers[1]), Token(SeedUsers[2])},
             bodies |-> {UploadBody(<<"n", ".", "p", "d", "f">>, "Test")}]
  /\ fs = DataDir(File(SeedUsers))

NextUploads ==
  \E s \in Slots :
    \/ DocumentsPost(s)
    \/ PoliciesPost(s)
    \/ Access(s)
    \/ InitFile(s)
    \/ ReadFile(s)
    \/ WriteFile(s)

SpecUploads == InitUploads /\ [][NextUploads]_vars

\* The Admin has signed up.  A Teacher and a Student sign up while the
\* Admin creates routines for, and records the attendance of, the user
\* with id 2; the requests overlap.
InitRefs ==
  /\ InitCommon
  /\ scen = [conc |-> MaxConc, reqs |-> ConcReqs,
             routes |-> {"POST /routines"},
             tokens |-> {Token(SeedUsers[1])},
             bodiesFor |->
               [route \in {"POST /auth/signup", "POST /routines", "POST /attendance"} |->
                  CASE route = "POST /auth/signup"
                         -> {SignupBody(<<"t">>, "pw", "Teacher", Undefined),
                             SignupBody(<<"s">>, "pw", "Student", "A")}
                    [] route = "POST /routines" -> {RoutineBody("A", 2)}
                    [] route = "POST /attendance"
                         -> {AttendanceBody(Num(2), Obj(Days(TRUE, TRUE)))}]]
  /\ fs = DataDir(File(<<SeedUsers[1]>>))

NextRefs ==
  \E s \in Slots :
    \/ SignupRequest(s)
    \/ RoutinesRequest(s)
    \/ AttendanceRequest(s)
    \/ Access(s)
    \/ InitFile(s)
    \/ ReadFile(s)
    \/ WriteFile(s)

SpecRefs == InitRefs /\ [][NextRefs]_vars

\* A Teacher and a Student sign up and sign in, one request at a time, with
\* the email as given or in another case, with the password or another.
InitSignin ==
  /\ InitCommon
  /\ scen = [conc |-> 1, reqs |-> MaxReqs,
             bodies |-> {SignupBody(<<"a">>, "pw", "Teacher", Undefined),
                         SignupBody(<<"b">>, "pw", "Student", "A")},
             signins |-> {SigninBody(<<"A">>, "pw"), SigninBody(<<"b">>, "pw"),
                          SigninBody(<<"b">>, "no")}]
  /\ fs = DataDir(NoFile)

NextSignin ==
  \E s \in Slots :
    \/ SignupRequest(s)
    \/ SigninRequest(s)
    \/ Access(s)
    \/ InitFile(s)
    \/ ReadFile(s)
    \/ WriteFile(s)

SpecSignin == InitSignin /\ [][NextSignin]_vars

\* Signins of the Admin while time passes; routines and attendance are
\* asked for without a token, with a string that is no token, with a
\* Teacher's token signed with another key, and with the tokens the signins
\* minted, before and after their expiry.
InitAuth ==
  /\ InitCommon
  /\ scen = [conc |-> 1, reqs |-> MaxReqs, seconds |-> EarlySeconds,
             signins |-> {SigninBody(<<"a", "@", "x">>, "pw")},
             viewers |-> {NoToken, Malformed, Forged(Token(SeedUsers[2]))},
             ids |-> {Str(<<"2">>)}]
  /\ fs = DataDir(File(SeedUsers))

NextAuth ==
  \/ \E s \in Slots :
       \/ SigninRequest(s)
       \/ RoutinesGet(s)
       \/ AttendanceGet(s)
       \/ Access(s)
       \/ InitFile(s)
       \/ ReadFile(s)
  \/ Tick

SpecAuth == InitAuth /\ [][NextAuth]_vars

\* The routes that create a record with the next identifier.
CreateRoutes == {"POST /auth/signup", "POST /routines", "POST /documents", "POST /policies"}

\* Signups, routines created and deleted, documents and policies uploaded,
\* by the Admin and by the Teacher, one request at a time.
InitCreates ==
  /\ InitCommon
  /\ scen = [conc |-> 1, reqs |-> MaxReqs,
             routes |-> {"POST /routines", "DELETE /routines/:id"},
             tokens |-> {Token(SeedUsers[1]), Token(SeedUsers[2])},
             ids |-> {Str(<<"1">>)},
             bodiesFor |->
               [route \in CreateRoutes |->
                  CASE route = "POST /auth/signup"
                         -> {SignupBody(<<"b">>, "pw", "Teacher", Undefined),
                             SignupBody(<<"c">>, "pw", "Student", "B")}
                    [] route = "POST /routines"
                         -> {RoutineBody("A", 2), RoutineBody("B", 2)}
                    [] route = "POST /documents"
                         -> {UploadBody(<<"n", ".", "p", "d", "f">>, "Test document")}
                    [] route = "POST /policies"
                         -> {UploadBody(<<"n", ".", "p", "d", "f">>, Undefined)}]]
  /\ fs = DataDir(File(SeedUsers))

NextCreates ==
  \E s \in Slots :
    \/ SignupRequest(s)
    \/ RoutinesRequest(s)
    \/ DocumentsPost(s)
    \/ PoliciesPost(s)
    \/ Access(s)
    \/ InitFile(s)
    \/ ReadFile(s)
    \/ WriteFile(s)

SpecCreates == InitCreates /\ [][NextCreates]_vars

\* overlapping requests
InitAttendance == InitAttendanceWith(MaxConc, ConcReqs)
SpecAttendance == InitAttendance /\ [][NextAttendance]_vars
\* one request at a time
InitAttendanceSeq == InitAttendanceWith(1, MaxReqs)
SpecAttendanceSeq == InitAttendanceSeq /\ [][NextAttendance]_vars

-----------------------------------------------------------------------------
(* Claims *)

storedRoutines == fs["routines"].data
storedUsers == fs["users"].data
storedMarks == fs["marks"].data
storedAttendance == fs["attendance"].data
storedDocuments == fs["documents"].data
storedUploads == fs["uploads"].data
storedPolicies == fs["policies"].data

Created(route) == {i \in 1..Len(log) : log[i].route = route /\ log[i].res.status = 201}

\* C1: after any sequence of successful create, update and delete requests
\* on /routines, no two routine records have the same id.
C1_UniqueRoutineIds ==
  \A i, j \in 1..Len(storedRoutines) :
    i # j => storedRoutines[i].id # storedRoutines[j].id

\* C5: an identifier returned by a successful POST /routines is never
\* returned again by a later POST /routines.
C5_StableRoutineIds ==
  \A i, j \in Created("POST /routines") :
    i < j => log[i].res.body.id # log[j].res.body.id

AllIdle == \A s \in Slots : req[s].pc = "idle"

\* The email of the signup in slot s is, but for case, that of a stored user.
C2_EmailsInUse(s) ==
  \E i \in 1..Len(storedUsers) :
    toLowerCase(storedUsers[i].email) = toLowerCase(req[s].body.email)

\* C2: under any interleaving of signups no two stored identities have
\* emails that are equal after lower-casing; and a signup whose email
\* matches, case-insensitively, an identity in the users it loads is answered
\* 400 'User already exists' and writes nothing.
C2_UniqueEmails ==
  /\ [](\A i, j \in 1..Len(storedUsers) :
         i # j => toLowerCase(storedUsers[i].email) # toLowerCase(storedUsers[j].email))
  /\ [][\A s \in Slots :
          (req[s].pc = "read" /\ req'[s].pc # "read" /\ C2_EmailsInUse(s))
            => /\ req'[s].pc = "idle"
               /\ last' = Entry(req[s], Res(400, "User already exists", NoBody))
               /\ fs' = fs]_vars
\* Two identities are stored and a signup with the first one's email in
\* another case has been refused.
C2_Witness ==
  /\ Len(storedUsers) = 2
  /\ last.route = "POST /auth/signup"
  /\ last.res = Res(400, "User already exists", NoBody)
  /\ last.body.email = <<"A">>
  /\ storedUsers[1].email = <<"a">>

\* C3: two overlapping creates on one collection, starting from the empty
\* collection, never both succeed with the same assigned identifier.  Stated
\* on signups, where nothing is ever deleted: no two successful signups
\* carry the same id in their tokens.
C3_DistinctCreatedIds ==
  \A i, j \in Created("POST /auth/signup") :
    i < j => log[i].res.body.id # log[j].res.body.id

\* C4: no lost updates.  Once every request has completed, every
\* POST /attendance that was answered with success has a record for its
\* userId in the persisted collection.
C4_NoLostUpdate ==
  AllIdle =>
    \A i \in 1..Len(log) :
      \E k \in 1..Len(storedAttendance) :
        storedAttendance[k].userId = log[i].body.userId.n

\* C6: the marks collection holds at most one record for each
\* (userId, subject) pair.
C6_UniqueMarkKeys ==
  \A i, j \in 1..Len(storedMarks) :
    i # j => ~(/\ storedMarks[i].userId = storedMarks[j].userId
               /\ storedMarks[i].subject = storedMarks[j].subject)

\* Two mark records are for the same (userId, subject) pair.
C7_SamePair(a, b) == a.userId = b.userId /\ a.subject = b.subject

\* C7: a POST /marks for a (userId, subject) pair that an earlier successful
\* POST /marks was answered for leaves exactly one record for the pair: the
\* second submission's record, at the position of the first; every other
\* record is unchanged.
C7_SecondSubmissionWins ==
  [][\A s \in Slots :
       (/\ req[s].pc = "write" /\ req'[s].pc = "idle"
        /\ req[s].route = "POST /marks"
        /\ \E i \in 1..Len(log) : C7_SamePair(log[i].res.body, req[s].res.body))
       => LET e == req[s].res.body
              at == {k \in 1..Len(storedMarks) : C7_SamePair(storedMarks[k], e)}
          IN /\ Cardinality(at) = 1
             /\ storedMarks' = [storedMarks EXCEPT ![CHOOSE k \in at : TRUE] = e]]_vars

\* C8: under any interleaving of POST /attendance requests the attendance
\* collection holds at most one record for each userId.
C8_OneRecordPerUser ==
  \A i, j \in 1..Len(storedAttendance) :
    i # j => storedAttendance[i].userId # storedAttendance[j].userId
\* Both users have a record and one of them was posted for twice.
C8_Witness ==
  /\ Len(storedAttendance) = 2
  /\ \E i, j \in 1..Len(log) : i < j /\ log[i].body.userId = log[j].body.userId

\* C9: a successful POST /attendance for a userId that has a record replaces
\* that record's day mapping by exactly the submitted mapping and changes
\* nothing else: not the record's userId, name, userType or position, and no
\* other record.
C9_FullReplace ==
  [][\A s \in Slots :
       (/\ req[s].pc = "write" /\ req'[s].pc = "idle"
        /\ req[s].route = "POST /attendance"
        /\ \E k \in 1..Len(storedAttendance) :
             storedAttendance[k].userId = req[s].body.userId.n)
       => LET k == CHOOSE k \in 1..Len(storedAttendance) :
                     storedAttendance[k].userId = req[s].body.userId.n
          IN storedAttendance' =
               [storedAttendance EXCEPT ![k].attendance = req[s].body.attendance.o]]_vars
\* User 3 had Monday and Tuesday recorded, a later POST gave Monday only,
\* and the record (the second of the collection) now holds Monday only.
C9_Witness ==
  /\ Len(log) >= 3
  /\ log[2].body = AttendanceBody(Num(3), Obj(Days(TRUE, TRUE)))
  /\ last = log[Len(log)]
  /\ last.body = AttendanceBody(Num(3), Obj([Monday |-> Bool(FALSE)]))
  /\ Len(storedAttendance) = 2
  /\ storedAttendance[2].userId = 3
  /\ storedAttendance[2].attendance = [Monday |-> Bool(FALSE)]

\* The grade table as the specification states it.
C10_Grade(m) ==
  CASE m >= 90 -> "A"
    [] 80 <= m /\ m < 90 -> "B"
    [] 70 <= m /\ m < 80 -> "C"
    [] 60 <= m /\ m < 70 -> "D"
    [] OTHER -> "F"

\* C10: for every accepted marks value m in 0..100 the grade stored and
\* returned by POST /marks is A if m >= 90, B if 80 <= m < 90, C if
\* 70 <= m < 80, D if 60 <= m < 70 and F otherwise; in particular
\* grade(90)=A, grade(89)=B, grade(80)=B, grade(79)=C, grade(70)=C,
\* grade(69)=D, grade(60)=D, grade(59)=F.
C10_GradeThresholds ==
  /\ \A i \in 1..Len(storedMarks) :
       storedMarks[i].grade = C10_Grade(storedMarks[i].marks)
  /\ (last.route = "POST /marks" /\ last.res.status = 201)
       => /\ last.res.body.marks = last.body.marks.n
          /\ last.res.body.grade = C10_Grade(last.body.marks.n)
  /\ \A s \in Slots :
       req[s].pc = "write" =>
         \A b \in {<<90, "A">>, <<89, "B">>, <<80, "B">>, <<79, "C">>,
                    <<70, "C">>, <<69, "D">>, <<60, "D">>, <<59, "F">>} :
           req[s].body.marks.n = b[1] => req[s].res.body.grade = b[2]
\* A marks value of 89 was stored and answered with grade B.
C10_Witness ==
  /\ last.route = "POST /marks"
  /\ last.res.status = 201
  /\ last.body.marks.n = 89
  /\ last.res.body.grade = "B"
  /\ Len(storedMarks) = 1
  /\ storedMarks[1].grade = "B"

\* The 403 message of the routines handler behind a route.
C11_Denial(route) ==
  CASE route = "POST /routines" -> "Only Admins can create routines"
    [] route = "PUT /routines/:id" -> "Only Admins can update routines"
    [] route = "DELETE /routines/:id" -> "Only Admins can delete routines"

\* C11: a create, update or delete on /routines by an authenticated Teacher
\* or Student is answered 403 (for a create with 'Only Admins can create
\* routines') before anything is loaded, and leaves the data directory as
\* it was; only a request of an Admin changes the routines collection.
C11_OnlyAdminsChangeRoutines ==
  /\ [](/\ \A s \in Slots : req[s].pc # "idle" => req[s].token.userType = "Admin"
        /\ (last.route \in {"POST /routines", "PUT /routines/:id",
                             "DELETE /routines/:id"}
             /\ last.token.userType \in {"Teacher", "Student"})
              => last.res = Res(403, C11_Denial(last.route), NoBody))
  /\ [][/\ (started' # started /\ InFlight' = InFlight
             /\ last'.token.userType \in {"Teacher", "Student"})
              => fs' = fs
        /\ storedRoutines' # storedRoutines
             => \E s \in Slots : /\ req[s].pc = "write" /\ req'[s].pc = "idle"
                                 /\ req[s].token.userType = "Admin"]_vars
\* A Student's update of a stored routine was refused.
C11_Witness ==
  /\ last.route = "PUT /routines/:id"
  /\ last.token.userType = "Student"
  /\ last.res = Res(403, "Only Admins can update routines", NoBody)
  /\ RoutineIndex(storedRoutines, last.params) > 0

\* C12: a GET /routines by a Student of section s is answered with exactly
\* the routines whose section is s, in the order of the collection.
C12_StudentSeesOwnSection ==
  [][\A s \in Slots :
       (/\ req[s].pc = "read" /\ req'[s].pc = "idle"
        /\ req[s].route = "GET /routines"
        /\ req[s].user.userType = "Student")
       => last'.res = Res(200, "", [rows |-> SelectSeq(storedRoutines,
                                       LAMBDA x : x.section = req[s].user.section)])]_vars
\* The collection holds a routine of section B before one of section A, a
\* third of section B after them, and the Student of section B was
\* answered with the first and the third.
C12_Witness ==
  /\ last.route = "GET /routines"
  /\ last.token = Token(ViewUsers[5])
  /\ Len(storedRoutines) = 3
  /\ storedRoutines[2].section = "A"
  /\ last.res.status = 200
  /\ last.res.body.rows = <<storedRoutines[1], storedRoutines[3]>>

\* C13: a GET /routines by an Admin is answered with the whole collection;
\* by a Teacher, with exactly the routines whose teacherId is that Teacher's
\* id (in the order of the collection).
C13_AdminSeesAllTeacherOwn ==
  [][\A s \in Slots :
       (/\ req[s].pc = "read" /\ req'[s].pc = "idle"
        /\ req[s].route = "GET /routines")
       => /\ req[s].user.userType = "Admin"
               => last'.res = Res(200, "", [rows |-> storedRoutines])
          /\ req[s].user.userType = "Teacher"
               => last'.res = Res(200, "", [rows |-> SelectSeq(storedRoutines,
                                    LAMBDA x : x.teacherId = req[s].user.id)])]_vars
\* Routines of both Teachers are stored and Teacher 4 was answered with
\* one routine, which is theirs.
C13_Witness ==
  /\ last.route = "GET /routines"
  /\ last.token = Token(ViewUsers[4])
  /\ \E k \in 1..Len(storedRoutines) : storedRoutines[k].teacherId = 2
  /\ last.res.status = 200
  /\ Len(last.res.body.rows) = 1
  /\ last.res.body.rows[1].teacherId = 4

\* C14: a POST /marks by a Student is always answered 403 and leaves the
\* marks collection unchanged; a GET /marks/:userId by a Student succeeds
\* for the Student's own id and only for it, and is answered 403 for any
\* other; an Admin or a Teacher may read the marks of any userId.
C14_StudentMarksAccess ==
  /\ [](/\ \A s \in Slots :
             req[s].pc # "idle" /\ req[s].token.userType = "Student"
               => /\ req[s].route = "GET /marks/:userId"
                  /\ ParseInt(req[s].params) = req[s].token.id
        /\ (last.route = "POST /marks" /\ last.token.userType = "Student")
             => last.res = Res(403, "Only Admins or Teachers can update marks", NoBody)
        /\ (last.route = "GET /marks/:userId" /\ last.token.userType = "Student")
             => IF ParseInt(last.params) = last.token.id
                THEN last.res.status = 200
                ELSE last.res = Res(403, "Unauthorized to view these marks", NoBody)
        /\ (last.route = "GET /marks/:userId"
             /\ last.token.userType \in {"Admin", "Teacher"})
             => last.res.status = 200)
  /\ [][(started' # started /\ InFlight' = InFlight
          /\ last'.token.userType = "Student")
           => fs' = fs]_vars
\* Both Students have marks; Student 3 asked for those of Student 5 and was
\* refused.
C14_Witness ==
  /\ \E k \in 1..Len(storedMarks) : storedMarks[k].userId = 3
  /\ \E k \in 1..Len(storedMarks) : storedMarks[k].userId = 5
  /\ last.route = "GET /marks/:userId"
  /\ last.token = Token(ViewUsers[3])
  /\ last.params = Str(<<"5">>)
  /\ last.res.status = 403

\* C15: a POST /attendance by a Student is always answered 403 'Only Admins
\* or Teachers can modify attendance' and leaves the attendance collection
\* unchanged; a GET /attendance/:userId by a Student succeeds only for the
\* Student's own id (with the record, when there is one) and is answered
\* 403 for any other; an Admin or a Teacher is refused for no userId and
\* reads the record of any user that has one.
C15_StudentAttendanceAccess ==
  /\ [](/\ \A s \in Slots :
             req[s].pc # "idle" /\ req[s].token.userType = "Student"
               => /\ req[s].route = "GET /attendance/:userId"
                  /\ ParseInt(req[s].params) = req[s].token.id
        /\ (last.route = "POST /attendance" /\ last.token.userType = "Student")
             => last.res = Res(403, "Only Admins or Teachers can modify attendance",
                               NoBody)
        /\ (last.route = "GET /attendance/:userId" /\ last.token.userType = "Student")
             => IF ParseInt(last.params) = last.token.id
                THEN last.res.status \in {200, 404}
                ELSE last.res = Res(403, "Access denied", NoBody)
        /\ (last.route = "GET /attendance/:userId"
             /\ last.token.userType \in {"Admin", "Teacher"})
             => last.res.status \in {200, 404})
  /\ [][/\ (started' # started /\ InFlight' = InFlight
             /\ last'.token.userType = "Student")
              => fs' = fs
        /\ \A s \in Slots :
             (/\ req[s].pc = "read" /\ req'[s].pc = "idle"
              /\ req[s].route = "GET /attendance/:userId")
             => LET mine == {k \in 1..Len(storedAttendance) :
                               storedAttendance[k].userId = ParseInt(req[s].params)}
                IN IF mine = {} THEN last'.res.status = 404
                   ELSE /\ last'.res.status = 200
                        /\ \E k \in mine : last'.res.body = storedAttendance[k]]_vars
\* Teacher 2 and Student 3 have records; Student 3 asked for the Teacher's
\* and was refused.
C15_Witness ==
  /\ Len(storedAttendance) = 2
  /\ last.route = "GET /attendance/:userId"
  /\ last.token = Token(ViewUsers[3])
  /\ last.params = Str(<<"2">>)
  /\ last.res = Res(403, "Access denied", NoBody)

\* C16: only a Teacher adds to the documents collection: a POST /documents
\* by an Admin or a Student is answered 403 'Only Teachers can upload
\* documents' and leaves the collection unchanged; a GET /documents is
\* answered 200 with the whole collection, for a request without a token
\* as for any other.
C16_OnlyTeachersAddDocuments ==
  /\ [](/\ \A s \in Slots :
             req[s].pc # "idle" /\ req[s].route = "POST /documents"
               => req[s].token.userType = "Teacher"
        /\ (last.route = "POST /documents"
             /\ last.token.userType \in {"Admin", "Student"})
             => last.res = Res(403, "Only Teachers can upload documents", NoBody)
        /\ last.route = "GET /documents" => last.res.status = 200)
  /\ [][/\ storedDocuments' # storedDocuments
             => \E s \in Slots :
                  /\ req[s].pc = "write" /\ req'[s].pc = "idle"
                  /\ req[s].route = "POST /documents"
                  /\ req[s].token.userType = "Teacher"
                  /\ storedDocuments' = Append(storedDocuments, last'.res.body)
        /\ \A s \in Slots :
             (/\ req[s].pc = "read" /\ req'[s].pc = "idle"
              /\ req[s].route = "GET /documents")
             => last'.res = Res(200, "", [rows |-> storedDocuments])]_vars
\* A file was stored for an upload that added no document (an Admin's or a
\* Student's), a Teacher's document is in the collection, and a caller
\* without a token was answered with the collection.
C16_Witness ==
  /\ Len(storedDocuments) >= 1
  /\ Len(storedUploads) > Len(storedDocuments)
  /\ last.route = "GET /documents"
  /\ last.token = NoToken
  /\ last.res = Res(200, "", [rows |-> storedDocuments])

\* The request carries a file whose name ends, in any case, in .pdf or .docx.
C17_PdfOrDocx(body) ==
  /\ body.originalname # NoUpload
  /\ \E k \in {4, 5} :
       /\ Len(body.originalname) > k
       /\ toLowerCase(SubSeq(body.originalname, Len(body.originalname) - k + 1,
                              Len(body.originalname)))
            \in {<<".", "p", "d", "f">>, <<".", "d", "o", "c", "x">>}

\* C17: a policy record is added only by the request of an Admin that
\* carries a file with extension .pdf or .docx, in any case.  A Teacher's
\* or Student's request (403), an Admin's request without a file (400) and
\* a request with a file of another type (400) leave the policies
\* collection unchanged: none of them gets as far as loading it.
C17_OnlyAdminsAddPolicies ==
  /\ [](/\ \A s \in Slots :
             req[s].pc # "idle"
               => req[s].token.userType = "Admin" /\ C17_PdfOrDocx(req[s].body)
        /\ (last.route = "POST /policies" /\ last.token # NoToken)
             => CASE last.body.originalname # NoUpload /\ ~C17_PdfOrDocx(last.body)
                       -> last.res = Res(400, "Only PDF and DOCX files are allowed",
                                         NoBody)
                  [] OTHER ->
                     CASE last.token.userType \in {"Teacher", "Student"}
                            -> last.res = Res(403, "Only Admins can upload policies",
                                              NoBody)
                       [] last.body.originalname = NoUpload
                            -> last.res = Res(400, "No file uploaded", NoBody)
                       [] OTHER -> last.res.status = 201)
  /\ [][storedPolicies' # storedPolicies
          => \E s \in Slots :
               /\ req[s].pc = "write" /\ req'[s].pc = "idle"
               /\ req[s].token.userType = "Admin"
               /\ C17_PdfOrDocx(req[s].body)
               /\ storedPolicies' = Append(storedPolicies, last'.res.body)]_vars
\* The Admin's n.txt.PdF has become the second policy, stored as .pdf, while
\* one more file was uploaded than policies were added.
C17_Witness ==
  /\ Len(storedPolicies) = 2
  /\ last.route = "POST /policies"
  /\ last.body.originalname = <<"n", ".", "t", "x", "t", ".", "P", "d", "F">>
  /\ last.res.status = 201
  /\ storedPolicies[2] = last.res.body
  /\ storedPolicies[2].fileName.ext = <<".", "p", "d", "f">>
  /\ Len(storedUploads) = 3
  /\ last.token.userType = "Admin"

\* C18: create then find.  When a POST /routines has succeeded with a
\* record of identifier i, the first record of the collection whose id is i
\* is equal to the record the create returned, whatever creates, updates
\* and deletes came before.
C18_CreateThenFind ==
  [][\A s \in Slots :
       (/\ req[s].pc = "write" /\ req'[s].pc = "idle"
        /\ req[s].route = "POST /routines")
       => LET created == last'.res.body
              k == FindIndex({j \in 1..Len(storedRoutines') :
                                storedRoutines'[j].id = created.id})
          IN k > 0 /\ storedRoutines'[k] = created]_vars

\* C19: delete then find.  Right after a DELETE /routines/:id has succeeded
\* for identifier i, the lookup that update and delete use finds no record
\* with identifier i (so both answer 404 'Routine not found'), whatever
\* creates and deletes came before.
C19_DeleteThenFind ==
  [][\A s \in Slots :
       (/\ req[s].pc = "write" /\ req'[s].pc = "idle"
        /\ req[s].route = "DELETE /routines/:id"
        /\ last'.res.status = 200)
       => /\ RoutineIndex(storedRoutines', req[s].params) = 0
          /\ RoutineDelete(req[s], storedRoutines').res
               = Res(404, "Routine not found", NoBody)]_vars

\* C20: every token minted, at signup and at signin, expires exactly one
\* hour after its issue: authenticate accepts it while the clock is before
\* issue + 3600 s and answers 401 at issue + 3601 s and at every later
\* time; a token that has expired is never accepted again.
C20_TokenLifetime ==
  /\ [](\A token \in Minted :
         /\ token.exp = token.iat + 3600
         /\ now < token.iat + 3600 => authenticate(token, storedUsers).ok
         /\ now >= token.iat + 3601
              => authenticate(token, storedUsers)
                   = [ok |-> FALSE, res |-> Res(401, "Invalid token", NoBody)])
  /\ [][\A token \in Minted :
          (now >= token.exp /\ ~authenticate(token, storedUsers).ok)
            => ~(authenticate(token, storedUsers).ok)']_vars

\* C21: every request that ends in an authentication (401), authorization
\* (403), validation (400) or not-found (404) outcome leaves the content of
\* every collection exactly as it was: no step of such a request has altered
\* the content of a collection file.
C21_ErrorsChangeNothing ==
  (last # NoLast /\ last.res.status \in {400, 401, 403, 404}) => ~last.changed

\* C22: whenever the read or write of a collection fails during a request,
\* that request ends there with an error response and never with a success
\* status: a request one of whose reads or writes has failed is no longer
\* in flight (nothing is retried), and the response it got is no success.
C22_StorageFailureSurfaced ==
  /\ \A s \in Slots : req[s].pc # "idle" => ~req[s].fault
  /\ (last # NoLast /\ last.fault) => last.res.status \notin {200, 201}

\* The tokens that fail verification now: none, a string that is no token,
\* a minted token re-signed with another key, a minted token that has
\* expired.
C23_BadTokens ==
  {NoToken, Malformed}
    \cup {Forged(token) : token \in Minted}
    \cup {token \in Minted : now >= token.exp}

\* C23: authentication failure is uniform.  When a request to a protected
\* endpoint has been answered 401, a request with no token, with a
\* malformed token, with a token of a wrong signature and with an expired
\* token would each be given that same response (status and message), by
\* the shared authenticate and by the attendance router's own.
C23_UniformAuthFailure ==
  (last # NoLast /\ last.route \in {"GET /routines", "GET /attendance/:userId"}
     /\ last.res.status = 401)
    => \A token \in C23_BadTokens :
         /\ authenticate(token, storedUsers) = [ok |-> FALSE, res |-> last.res]
         /\ decode(token) = [ok |-> FALSE, res |-> last.res]

\* C24: token validity is stateless.  Whether authenticate accepts a minted
\* token at a given time does not depend on the state of the accounts
\* collection: no step of a signup (or of any request) that leaves the
\* clock where it is changes whether the token is accepted.
C24_StatelessValidity ==
  [][\A token \in Minted :
       now' = now
         => (authenticate(token, storedUsers).ok
               <=> (authenticate(token, storedUsers).ok)')]_vars

\* C25: in every reachable state of the accounts collection every Student
\* has a non-empty section and no Admin or Teacher has a section field,
\* whatever section the signup submitted; a Student signup without a
\* section is answered 400 and adds nothing: it never gets as far as
\* loading the collection.
C25_StudentsHaveSections ==
  /\ [](/\ \A i \in 1..Len(storedUsers) :
             /\ storedUsers[i].userType = "Student"
                  => storedUsers[i].section \notin {Undefined, ""}
             /\ storedUsers[i].userType \in {"Admin", "Teacher"}
                  => storedUsers[i].section = Undefined
        /\ \A s \in Slots :
             req[s].pc # "idle"
               => ~(req[s].body.userType = "Student"
                      /\ req[s].body.section \in {Undefined, ""})
        /\ (last # NoLast /\ last.body.userType = "Student"
              /\ last.body.section \in {Undefined, ""})
             => last.res.status = 400)
  /\ [][(started' # started /\ InFlight' = InFlight
          /\ last'.body.userType = "Student"
          /\ last'.body.section \in {Undefined, ""})
           => fs' = fs]_vars
\* An Admin who signed up with section B is stored without a section, a
\* Student of section B is stored with it, and a Student's signup with an
\* empty section has been refused.
C25_Witness ==
  /\ Len(storedUsers) = 2
  /\ \E i \in 1..2 : /\ log[i].body = SignupBody(<<"A">>, "pw", "Admin", "B")
                      /\ storedUsers[log[i].res.body.id].userType = "Admin"
                      /\ storedUsers[log[i].res.body.id].section = Undefined
  /\ \E i \in 1..2 : /\ storedUsers[i].userType = "Student"
                      /\ storedUsers[i].section = "B"
  /\ last.body = SignupBody(<<"b">>, "pw", "Student", "")
  /\ last.res = Res(400, "Section is required for Students", NoBody)

\* The marks value or the subject of a POST /marks body is not acceptable:
\* no number, a number outside 0..100, or a subject outside the three.
C26_Invalid(body) ==
  \/ body.marks.t # "number"
  \/ body.marks.n < 0
  \/ body.marks.n > 100
  \/ body.subject \notin {"Math", "Science", "English"}

\* C26: in every reachable state of the marks collection every record has
\* a marks value in 0..100, a subject among Math, Science and English, and
\* the grade that belongs to its own marks value.  A POST /marks by an
\* Admin or a Teacher with marks outside 0..100, marks that are no number
\* or another subject is answered 400: it is never loaded and leaves the
\* data directory as it was.
C26_ValidMarkRecords ==
  /\ [](/\ \A i \in 1..Len(storedMarks) :
             /\ storedMarks[i].marks \in 0..100
             /\ storedMarks[i].subject \in {"Math", "Science", "English"}
             /\ storedMarks[i].grade = C10_Grade(storedMarks[i].marks)
        /\ \A s \in Slots : req[s].pc # "idle" => ~C26_Invalid(req[s].body)
        /\ (last # NoLast /\ last.token.userType \in {"Admin", "Teacher"}
              /\ C26_Invalid(last.body))
             => last.res.status = 400)
  /\ [][(started' # started /\ InFlight' = InFlight /\ C26_Invalid(last'.body))
           => fs' = fs]_vars
\* Two records are stored, one of them replaced by a later submission, and
\* the Teacher's marks of 101 have been refused.
C26_Witness ==
  /\ Len(storedMarks) = 2
  /\ Len(log) = 3
  /\ last.token = Token(SeedUsers[2])
  /\ last.body = MarksBody(Num(3), "Math", Num(101))
  /\ last.res = Res(400, "Marks must be a number between 0 and 100", NoBody)

\* The stored identities whose email is, but for case, the submitted one and
\* whose password is the submitted one.
C27_Matching(body) ==
  {i \in 1..Len(storedUsers) :
     /\ toLowerCase(storedUsers[i].email) = toLowerCase(body.email)
     /\ storedUsers[i].password = Hash(body.password)}

\* C27: a signin succeeds (200 with a token carrying the stored identity's
\* id and userType) exactly when an identity with the submitted email, case
\* ignored, and the submitted password is stored; an unknown email and a
\* wrong password are both answered 401 'Invalid credentials'; and no step
\* of a signin changes the accounts collection.
C27_Signin ==
  [][\A s \in Slots :
       (req[s].pc # "idle" /\ req[s].route = "POST /auth/signin" /\ req'[s] # req[s])
       => /\ storedUsers' = storedUsers
          /\ req[s].pc = "read"
               => IF C27_Matching(req[s].body) = {}
                  THEN last'.res = Res(401, "Invalid credentials", NoBody)
                  ELSE /\ last'.res.status = 200
                       /\ \E i \in C27_Matching(req[s].body) :
                            /\ last'.res.body.id = storedUsers[i].id
                            /\ last'.res.body.userType = storedUsers[i].userType]_vars

\* C28: a successful create on routines, documents, policies or accounts
\* gives the new record the identifier (number of records the request
\* loaded) + 1, appends it as the last record, keeps every loaded record
\* unchanged and in its place, persists that sequence and returns the new
\* record (a signup returns a token with the new identifier).
C28_CreateFrame ==
  [][\A s \in Slots :
       (req[s].pc # "idle" /\ req[s].route \in CreateRoutes)
       => /\ (req[s].pc = "read" /\ req'[s].pc = "wAccess")
               => LET loaded == fs[req[s].file].data
                      arr == req'[s].arr
                  IN /\ Len(arr) = Len(loaded) + 1
                     /\ SubSeq(arr, 1, Len(loaded)) = loaded
                     /\ arr[Len(arr)].id = Len(loaded) + 1
          /\ (req[s].pc = "write" /\ req'[s].pc = "idle")
               => LET arr == req[s].arr
                  IN /\ fs'[req[s].file].data = arr
                     /\ last'.res.status = 201
                     /\ IF req[s].route = "POST /auth/signup"
                        THEN last'.res.body.id = arr[Len(arr)].id
                        ELSE last'.res.body = arr[Len(arr)]]_vars
\* After two creates and the delete of routine 1, a third create has
\* appended a record with identifier 2 behind the record that has it
\* already.
C28_Witness ==
  /\ last # NoLast
  /\ last.route = "POST /routines"
  /\ last.res.status = 201
  /\ Len(storedRoutines) = 2
  /\ storedRoutines[1].id = 2
  /\ storedRoutines[2] = last.res.body
  /\ last.res.body.id = 2

\* The record a PUT /routines/:id stores at index k of the routines it
\* loaded: the submitted fields under the identifier the record has.
C29_Replaced(loaded, k, body) ==
  [id |-> loaded[k].id, section |-> body.section, day |-> body.day,
   time |-> body.time, subject |-> body.subject, teacherId |-> body.teacherId]

\* C29: a successful PUT /routines/:id replaces the first record whose id
\* is the given id by the submitted fields, keeping the record's id and
\* position, the number of records and every other record, persists that
\* and returns the record; when no record has the id it answers 404
\* 'Routine not found' and changes nothing.
C29_UpdateFrame ==
  [][\A s \in Slots :
       (req[s].pc # "idle" /\ req[s].route = "PUT /routines/:id")
       => /\ (req[s].pc = "read" /\ req'[s] # req[s])
               => LET loaded == storedRoutines
                      at == {k \in 1..Len(loaded) :
                               loaded[k].id = ParseInt(req[s].params)}
                  IN IF at = {}
                     THEN /\ req'[s].pc = "idle"
                          /\ last'.res = Res(404, "Routine not found", NoBody)
                          /\ fs' = fs
                     ELSE LET k == CHOOSE k \in at : \A j \in at : k <= j
                              new == C29_Replaced(loaded, k, req[s].body)
                          IN /\ req'[s].pc = "wAccess"
                             /\ Len(req'[s].arr) = Len(loaded)
                             /\ \A j \in 1..Len(loaded) :
                                  req'[s].arr[j] = IF j = k THEN new ELSE loaded[j]
                             /\ req'[s].res = Res(200, "", new)
          /\ (req[s].pc = "write" /\ req'[s].pc = "idle")
               => /\ storedRoutines' = req[s].arr
                  /\ last'.res = req[s].res]_vars
\* Two records have identifier 2 (two creates, the delete of routine 1, a
\* third create), and a PUT /routines/2 has replaced the first of them and
\* left the second as it was created.
C29_Witness ==
  /\ last # NoLast
  /\ last.route = "PUT /routines/:id"
  /\ last.params = Str(<<"2">>)
  /\ last.res.status = 200
  /\ Len(storedRoutines) = 2
  /\ storedRoutines[1] = last.res.body
  /\ storedRoutines[2].id = 2
  /\ storedRoutines[2] # storedRoutines[1]

\* C30: a successful DELETE /routines/:id removes exactly one record, one
\* whose id is the given id, keeps all other records unchanged and
\* in their order, and persists that; when no record has the id it answers
\* 404 'Routine not found' and changes nothing.
C30_DeleteFrame ==
  [][\A s \in Slots :
       (req[s].pc # "idle" /\ req[s].route = "DELETE /routines/:id")
       => /\ (req[s].pc = "read" /\ req'[s] # req[s])
               => LET loaded == storedRoutines
                      at == {k \in 1..Len(loaded) :
                               loaded[k].id = ParseInt(req[s].params)}
                  IN IF at = {}
                     THEN /\ req'[s].pc = "idle"
                          /\ last'.res = Res(404, "Routine not found", NoBody)
                          /\ fs' = fs
                     ELSE /\ req'[s].pc = "wAccess"
                          /\ Len(req'[s].arr) = Len(loaded) - 1
                          /\ \E k \in at :
                               \A j \in 1..Len(loaded) - 1 :
                                 req'[s].arr[j] = IF j < k THEN loaded[j]
                                                  ELSE loaded[j + 1]
          /\ (req[s].pc = "write" /\ req'[s].pc = "idle")
               => /\ storedRoutines' = req[s].arr
                  /\ last'.res = Res(200, "Routine deleted", NoBody)]_vars
\* Of two records with identifier 2, a DELETE /routines/2 has removed one;
\* the other is still stored.
C30_Witness ==
  /\ last # NoLast
  /\ last.route = "DELETE /routines/:id"
  /\ last.params = Str(<<"2">>)
  /\ last.res.status = 200
  /\ Len(log) = 5
  /\ Len(storedRoutines) = 1
  /\ storedRoutines[1].id = 2

\* C31: lazy initialization never replaces persisted content.  Whenever a
\* request carries out the fs.writeFile(FILE, '[]') of its load or save (the
\* step that follows a failed fs.access), under any interleaving of requests,
\* a collection that has been persisted by then keeps its content: no saved
\* record is erased by another request's initialization.
C31_InitKeepsPersisted ==
  [][\A s \in Slots :
       (/\ req[s].pc \in {"rInit", "wInit"}
        /\ req'[s].pc \in {"read", "write"}
        /\ fs[req[s].file].exists)
       => fs'[req[s].file].data = fs[req[s].file].data]_vars

\* The routes that only read.
C32_ReadOnly ==
  {"GET /routines", "GET /marks/:userId", "GET /attendance/:userId",
   "GET /documents", "GET /documents/:id", "GET /policies", "GET /policies/:id"}

\* C32: read-only requests change no content.  Every step of a GET (its
\* arrival, its fs.access, its creation of a missing file, its read and its
\* response, whatever the outcome) leaves every existing collection with its
\* content and leaves a missing one missing or created as the empty sequence.
C32_ReadsChangeNothing ==
  [][\A s \in Slots :
       (/\ req'[s] # req[s]
        /\ (IF req[s].pc = "idle" THEN req'[s].route ELSE req[s].route)
             \in C32_ReadOnly)
       => \A f \in Files :
            IF fs[f].exists THEN fs'[f].exists /\ fs'[f].data = fs[f].data
            ELSE fs'[f] \in {fs[f], File(<<>>)}]_vars

\* C33: in every reachable state of the accounts collection, whatever the
\* sequence and the interleaving of signups, the ids are integers of at
\* least 1, pairwise distinct, and the identity at position k (counting
\* from 1) has id k.
C33_AccountIds ==
  /\ \A k \in 1..Len(storedUsers) : storedUsers[k].id \in Nat \ {0}
  /\ \A j, k \in 1..Len(storedUsers) :
       j # k => storedUsers[j].id # storedUsers[k].id
  /\ \A k \in 1..Len(storedUsers) : storedUsers[k].id = k

\* Three signups have succeeded, two of them overlapping so that one's
\* write was lost: the collection holds two identities.
C33_Witness ==
  /\ AllIdle
  /\ Len(SelectSeq(log, LAMBDA e : e.route = "POST /auth/signup")) = 3
  /\ Len(storedUsers) = 2

\* C34: token-identity binding.  For every token minted by signup or
\* signin, in every later state: if the shared authenticate middleware
\* accepts the token, the stored user it attaches to the request has the
\* email and the userType recorded in the token.
C34_TokenBinding ==
  \A token \in Minted :
    LET auth == authenticate(token, storedUsers)
    IN auth.ok => /\ auth.user.email = token.email
                  /\ auth.user.userType = token.userType

\* The claims of a token apart from its times and its signature.
C35_Claims(token) ==
  [id |-> token.id, email |-> token.email, userType |-> token.userType,
   section |-> token.section]

\* C35: for the same stored identity, the token minted at signin carries
\* the claims of the token minted at signup: id, email, userType, and the
\* section when the identity is a Student.
C35_SigninLikeSignup ==
  \A i, j \in 1..Len(log) :
    (/\ log[i].route = "POST /auth/signup"
     /\ log[j].route = "POST /auth/signin"
     /\ log[j].res.body.id = log[i].res.body.id)
    => C35_Claims(log[j].res.body) = C35_Claims(log[i].res.body)

\* The roles permitted to change a resource (the policy table).
C36_Permitted(route) ==
  CASE route \in {"POST /attendance", "POST /marks"} -> {"Admin", "Teacher"}
    [] route \in {"POST /routines", "PUT /routines/:id", "DELETE /routines/:id",
                  "POST /policies"} -> {"Admin"}
    [] route = "POST /documents" -> {"Teacher"}

\* The caller as the route's authenticate middleware sees it.
C36_Caller(e) ==
  IF e.route = "POST /attendance" THEN decode(e.token)
  ELSE authenticate(e.token, storedUsers)

\* C36: authorization is decided before validation.  On POST /attendance,
\* POST, PUT and DELETE /routines, POST /documents, POST /policies and
\* POST /marks an authenticated caller whose role is not permitted is
\* answered 403 whatever the payload, never 400.
C36_DeniedBeforeValidated ==
  (/\ last # NoLast
   /\ last.route \in {"POST /attendance", "POST /routines", "PUT /routines/:id",
                      "DELETE /routines/:id", "POST /documents", "POST /policies",
                      "POST /marks"}
   /\ C36_Caller(last).ok
   /\ C36_Caller(last).user.userType \notin C36_Permitted(last.route))
  => last.res.status = 403

\* C37: in the documents and the policies collections, in every reachable
\* state under any sequence and interleaving of uploads, the record at
\* position k (counting from 1) has id k, so the ids are pairwise distinct.
C37_UploadIds ==
  /\ \A k \in 1..Len(storedDocuments) : storedDocuments[k].id = k
  /\ \A k \in 1..Len(storedPolicies) : storedPolicies[k].id = k
  /\ \A j, k \in 1..Len(storedDocuments) :
       j # k => storedDocuments[j].id # storedDocuments[k].id
  /\ \A j, k \in 1..Len(storedPolicies) :
       j # k => storedPolicies[j].id # storedPolicies[k].id

\* Three uploads of documents have been answered 201, two of them
\* overlapping so that one's write was lost: two documents are stored.
C37_Witness ==
  /\ AllIdle
  /\ Len(SelectSeq(log, LAMBDA e : e.route = "POST /documents")) = 3
  /\ Len(storedDocuments) = 2

\* C38: referential integrity.  In every reachable state, under any
\* interleaving of signups with routine and attendance writes, every
\* routine's teacherId is the id of a stored Teacher, and every attendance
\* record's userId is the id of a stored Teacher or Student whose userType
\* is the record's userType.
C38_ReferentialIntegrity ==
  /\ \A k \in 1..Len(storedRoutines) :
       \E u \in 1..Len(storedUsers) :
         /\ storedUsers[u].id = storedRoutines[k].teacherId
         /\ storedUsers[u].userType = "Teacher"
  /\ \A k \in 1..Len(storedAttendance) :
       \E u \in 1..Len(storedUsers) :
         /\ storedUsers[u].id = storedAttendance[k].userId
         /\ storedUsers[u].userType \in {"Teacher", "Student"}
         /\ storedUsers[u].userType = storedAttendance[k].userType

====
